---- MODULE Spec2Model ----
(***************************************************************************)
(* Planner reminder scheduler of Zenflow (client/src/utils/planner.ts,     *)
(* src/unnamed/part_001) and the planner board that drives it              *)
(* (src/unnamed/part_004).                                                 *)
(*                                                                         *)
(* Strings are sequences of UTF-16 code units, so that string comparison,  *)
(* date-key formatting, parsing and the notification-id hash are computed  *)
(* as the code computes them.  A JavaScript Date is its local wall-clock   *)
(* time in minutes since 1970-01-01T00:00 (no DST), or NaN for an Invalid  *)
(* Date; seconds are dropped because every instant the scheduler compares  *)
(* the reference instant with is minute-aligned.                           *)
(***************************************************************************)
EXTENDS Integers, Sequences, FiniteSets, TLC

\* ------------------------------------------------------------------------
\* Values of the JavaScript runtime
\* ------------------------------------------------------------------------
NaN == -1
Undefined == -2

S_dash == <<45>>                                                   \* "-"
S_daily == <<100, 97, 105, 108, 121, 45>>                          \* "daily-"
S_required == <<114, 101, 113, 117, 105, 114, 101, 100, 45>>       \* "required-"
S_followup == <<45, 102, 111, 108, 108, 111, 119, 117, 112, 45>>   \* "-followup-"
S_dailyCustom == <<100, 97, 105, 108, 121, 45, 99, 117, 115, 116, 111, 109, 45>> \* "daily-custom-"
S_water == <<119, 97, 116, 101, 114>>                              \* "water"
S_exercise == <<101, 120, 101, 114, 99, 105, 115, 101>>            \* "exercise"
S_meditation == <<109, 101, 100, 105, 116, 97, 116, 105, 111, 110>> \* "meditation"
S_empty == <<>>                                                    \* ""

IsDigit(c) == c >= 48 /\ c <= 57

\* left <= right for JavaScript strings: code-unit lexicographic order
RECURSIVE StrLE(_, _)
StrLE(left, right) ==
  IF left = <<>> THEN TRUE
  ELSE IF right = <<>> THEN FALSE
  ELSE IF left[1] # right[1] THEN left[1] < right[1]
  ELSE StrLE(Tail(left), Tail(right))

\* String(n) for an integer n >= 0
RECURSIVE NumberToString(_)
NumberToString(n) == IF n < 10 THEN <<48 + n>> ELSE NumberToString(n \div 10) \o <<48 + (n % 10)>>

\* String(n).padStart(2, '0')
PadStart2(n) == IF Len(NumberToString(n)) < 2 THEN <<48>> \o NumberToString(n) ELSE NumberToString(n)

\* the decimal value of the digits s[from..to], NaN when one is not a digit
RECURSIVE DigitsValue(_, _, _, _)
DigitsValue(s, from, to, acc) ==
  IF from > to THEN acc
  ELSE IF ~IsDigit(s[from]) THEN NaN
  ELSE DigitsValue(s, from + 1, to, acc * 10 + (s[from] - 48))

\* Number.parseInt(value, 10) for an unsigned value: the leading digit run, NaN when empty
RECURSIVE ParseIntFrom(_, _, _)
ParseIntFrom(value, index, acc) ==
  IF index > Len(value) \/ ~IsDigit(value[index])
  THEN (IF index = 1 THEN NaN ELSE acc)
  ELSE ParseIntFrom(value, index + 1, acc * 10 + (value[index] - 48))

ParseInt(value) == ParseIntFrom(value, 1, 0)

\* value.split(':')
RECURSIVE SplitColon(_, _, _)
SplitColon(value, index, piece) ==
  IF index > Len(value) THEN <<piece>>
  ELSE IF value[index] = 58 THEN <<piece>> \o SplitColon(value, index + 1, <<>>)
  ELSE SplitColon(value, index + 1, Append(piece, value[index]))

\* const [hour, minute] = time.split(':').map((value) => Number.parseInt(value, 10))
HourMinute(time) ==
  LET parts == SplitColon(time, 1, <<>>)
  IN [hour |-> ParseInt(parts[1]),
      minute |-> IF Len(parts) >= 2 THEN ParseInt(parts[2]) ELSE Undefined]

\* ------------------------------------------------------------------------
\* The Date object: local calendar arithmetic
\* ------------------------------------------------------------------------
MinutesPerDay == 1440

\* day number (days since 1970-01-01) of year-month-day; day may lie outside the
\* month and then rolls over, as in new Date(year, month, day) and setDate
DaysFromCivil(year, month, day) ==
  LET y == IF month <= 2 THEN year - 1 ELSE year
      era == y \div 400
      yoe == y - era * 400
      mp == IF month > 2 THEN month - 3 ELSE month + 9
      doy == (153 * mp + 2) \div 5 + day - 1
      doe == yoe * 365 + yoe \div 4 - yoe \div 100 + doy
  IN era * 146097 + doe - 719468

\* getFullYear(), getMonth() + 1, getDate() of a day number
CivilFromDays(days) ==
  LET z == days + 719468
      era == z \div 146097
      doe == z - era * 146097
      yoe == (doe - doe \div 1460 + doe \div 36524 - doe \div 146096) \div 365
      doy == doe - (365 * yoe + yoe \div 4 - yoe \div 100)
      mp == (5 * doy + 2) \div 153
      d == doy - (153 * mp + 2) \div 5 + 1
      m == IF mp < 10 THEN mp + 3 ELSE mp - 9
  IN [year |-> IF m <= 2 THEN yoe + era * 400 + 1 ELSE yoe + era * 400, month |-> m, day |-> d]

\* `${date.getFullYear()}-${String(date.getMonth() + 1).padStart(2, '0')}-${String(date.getDate()).padStart(2, '0')}`
FormatDateKey(days) ==
  LET c == CivilFromDays(days)
  IN NumberToString(c.year) \o S_dash \o PadStart2(c.month) \o S_dash \o PadStart2(c.day)

\* the date key of the lookahead day: setHours(0, 0, 0, 0); setDate(getDate() + dayOffset)
WindowDateKey(referenceDate, dayOffset) ==
  LET c == CivilFromDays(referenceDate \div MinutesPerDay)
  IN FormatDateKey(DaysFromCivil(c.year, c.month, 1) + (c.day + dayOffset) - 1)

IsDateKey(dateKey) ==
  /\ Len(dateKey) = 10
  /\ dateKey[5] = 45 /\ dateKey[8] = 45
  /\ DigitsValue(dateKey, 1, 4, 0) # NaN
  /\ DigitsValue(dateKey, 6, 7, 0) \in 1..12
  /\ DigitsValue(dateKey, 9, 10, 0) \in 1..31

IsTime(time) ==
  /\ Len(time) = 5
  /\ time[3] = 58
  /\ DigitsValue(time, 1, 2, 0) \in 0..23
  /\ DigitsValue(time, 4, 5, 0) \in 0..59

\* new Date(`${dateKey}T${time}:00`): the local instant, Invalid Date when the text does not parse
createDateTime(dateKey, time) ==
  IF IsDateKey(dateKey) /\ IsTime(time)
  THEN DaysFromCivil(DigitsValue(dateKey, 1, 4, 0), DigitsValue(dateKey, 6, 7, 0), DigitsValue(dateKey, 9, 10, 0))
         * MinutesPerDay + DigitsValue(time, 1, 2, 0) * 60 + DigitsValue(time, 4, 5, 0)
  ELSE NaN

\* value.split('-')
RECURSIVE SplitDash(_, _, _)
SplitDash(value, index, piece) ==
  IF index > Len(value) THEN <<piece>>
  ELSE IF value[index] = 45 THEN <<piece>> \o SplitDash(value, index + 1, <<>>)
  ELSE SplitDash(value, index + 1, Append(piece, value[index]))

\* Number(text) for a text without sign, point or blanks: 0 for the empty text, NaN
\* when a character is not a digit
NumberOf(text) == IF text = <<>> THEN 0 ELSE DigitsValue(text, 1, Len(text), 0)

\* new Date(year, monthIndex, day) as a day number: a year from 0 to 99 stands for
\* 1900 + year, and a month index outside 0..11 rolls over into the years
DateOf(year, monthIndex, day) ==
  LET fullYear == IF year >= 0 /\ year <= 99 THEN 1900 + year ELSE year
  IN DaysFromCivil(fullYear + (monthIndex \div 12), (monthIndex % 12) + 1, day)

\* parsePlannerDate(dateKey): <<day number>>, or <<>> for an Invalid Date
parsePlannerDate(dateKey) ==
  LET parts == SplitDash(dateKey, 1, <<>>)
      year == NumberOf(parts[1])
      month == IF Len(parts) >= 2 THEN NumberOf(parts[2]) ELSE NaN
      day == IF Len(parts) >= 3 THEN NumberOf(parts[3]) ELSE NaN
  IN IF year = NaN THEN <<>>
     ELSE <<DateOf(year, (IF month = NaN \/ month = 0 THEN 1 ELSE month) - 1,
                   IF day = NaN \/ day = 0 THEN 1 ELSE day)>>

S_NaNDate == <<78, 97, 78, 45, 78, 97, 78, 45, 78, 97, 78>>   \* "NaN-NaN-NaN"

\* shiftPlannerDate(dateKey, offsetDays): setDate(getDate() + offsetDays) and the date
\* key template, whose year is not padded
shiftPlannerDate(dateKey, offsetDays) ==
  LET nextDate == parsePlannerDate(dateKey)
  IN IF nextDate = <<>> THEN S_NaNDate ELSE FormatDateKey(nextDate[1] + offsetDays)

\* left < right for Dates: the comparison that lets an instant equal to the reference pass
DateLT(left, right) == left # NaN /\ right # NaN /\ left < right

\* left <= right for Dates: false as soon as one side is an Invalid Date
DateLE(left, right) == left # NaN /\ right # NaN /\ left <= right

\* reminderDateTime.setMinutes(reminderDateTime.getMinutes() + offsetMinutes)
AddMinutes(dateTime, offsetMinutes) == IF dateTime = NaN THEN NaN ELSE dateTime + offsetMinutes

\* ------------------------------------------------------------------------
\* plannerNotificationId
\* ------------------------------------------------------------------------
\* hash = (hash * 31 + code) | 0 on the two 16-bit halves <<hi, lo>> of the unsigned
\* 32-bit value of hash
HashStep(hash, code) ==
  LET l == hash[2] * 31 + code
      h == hash[1] * 31 + (l \div 65536)
  IN <<h % 65536, l % 65536>>

\* the for loop over input: hashFrom[hash, from, to] is the hash after the loop has
\* consumed input[from..to], entered with hash
HashLoop(input) ==
  LET hashFrom[hash \in (0..65535) \X (0..65535), from \in 1..Len(input), to \in 1..Len(input)] ==
        IF from = to THEN HashStep(hash, input[from])
        ELSE hashFrom[hashFrom[hash, from, (from + to) \div 2], (from + to) \div 2 + 1, to]
  IN IF Len(input) = 0 THEN <<0, 0>> ELSE hashFrom[<<0, 0>>, 1, Len(input)]

\* the signed 32-bit value <<hi, lo>> reduced modulo 2000000000 without Math.abs: the
\* remainder keeps the sign of the hash
SignedMod(hi, lo) ==
  IF hi < 32768 THEN (hi * 65536 + lo) % 2000000000
  ELSE IF hi = 32768 /\ lo = 0 THEN -147483648
  ELSE -(((65535 - hi) * 65536 + (65536 - lo)) % 2000000000)

\* Math.abs of the signed 32-bit value <<hi, lo>>, reduced modulo 2000000000
AbsMod(hi, lo) ==
  IF hi < 32768 THEN (hi * 65536 + lo) % 2000000000
  ELSE IF hi = 32768 /\ lo = 0 THEN 147483648          \* Math.abs(-2^31) % 2000000000
  ELSE ((65535 - hi) * 65536 + (65536 - lo)) % 2000000000

plannerNotificationId(input) ==
  LET hash == HashLoop(input)
  IN AbsMod(hash[1], hash[2])

\* ------------------------------------------------------------------------
\* Bounded inputs
\* ------------------------------------------------------------------------
\* the local instant year-month-day hour:minute
At(year, month, day, hour, minute) == DaysFromCivil(year, month, day) * MinutesPerDay + hour * 60 + minute

\* the value of an <input type="date"> showing year-month-day
DateText(year, month, day) == FormatDateKey(DaysFromCivil(year, month, day))

\* the instants at which the wall clock is read, in chronological order: before every
\* default reminder time of a leap day (the window crosses into March), and on the
\* default exercise reminder time, the water reminder just past, of a day whose
\* window crosses a year end
ReferenceInstants == << At(2024, 2, 29, 6, 0), At(2024, 12, 29, 7, 15) >>

T_noon == <<49, 50, 58, 48, 48>>      \* "12:00"
T_seven == <<48, 55, 58, 48, 48>>     \* "07:00"
T_late == <<50, 51, 58, 51, 48>>      \* "23:30"

\* ids `custom-${Date.now()}` in creation order; the first two have the same 32-bit hash
ItemIds ==
  << <<99, 117, 115, 116, 111, 109, 45, 49, 55, 48, 57, 49, 55, 49, 54, 57, 57, 56, 52, 49>>,   \* "custom-1709171699841"
     <<99, 117, 115, 116, 111, 109, 45, 49, 55, 48, 57, 50, 52, 52, 57, 49, 54, 53, 55, 56>>,   \* "custom-1709244916578"
     <<99, 117, 115, 116, 111, 109, 45, 49, 55, 48, 57, 51, 48, 48, 48, 48, 48, 48, 48, 48>> >> \* "custom-1709300000000"

\* the key of a follow-up left over from an earlier session
StaleKey == DateText(2024, 2, 20) \o S_dash \o S_required \o S_water \o S_followup \o <<48>>

\* ------------------------------------------------------------------------
\* Planner state model (PlannerMeta): a record whose optional fields may be absent
\* ------------------------------------------------------------------------
EmptyMap == [x \in {} |-> TRUE]

MapPut(map, key, value) == [k \in (DOMAIN map) \cup {key} |-> IF k = key THEN value ELSE map[k]]

RequiredTaskKeys == {"water", "exercise", "meditation"}

KeyText == [water |-> S_water, exercise |-> S_exercise, meditation |-> S_meditation]

defaultReminderTimes ==
  [water |-> <<48, 54, 58, 52, 53>>,        \* "06:45"
   exercise |-> <<48, 55, 58, 49, 53>>,     \* "07:15"
   meditation |-> <<48, 55, 58, 52, 53>>]   \* "07:45"

requiredTaskDefinitions ==
  << [key |-> "water", title |-> "Drink water"],
     [key |-> "exercise", title |-> "Exercise"],
     [key |-> "meditation", title |-> "Meditation"] >>

requiredNotificationChannels ==
  [water |-> "planner-water-reminders",
   exercise |-> "planner-exercise-reminders",
   meditation |-> "planner-meditation-reminders"]

\* escalation steps each measured from the follow-up before it
chainedReminderSteps ==
  [water |-> <<10, 30, 60, 105, 165>>,
   exercise |-> <<15, 45, 90>>,
   meditation |-> <<15, 45, 90>>]

\* escalation steps that lead up to the base time instead of following it
leadingReminderSteps ==
  [water |-> <<-60, -45, -30, -20, -10>>,
   exercise |-> <<-45, -30, -15>>,
   meditation |-> <<-45, -30, -15>>]

requiredReminderSteps ==
  [water |-> <<10, 20, 30, 45, 60>>,
   exercise |-> <<15, 30, 45>>,
   meditation |-> <<15, 30, 45>>]

\* `required-${task.key}`
RequiredTaskId(key) == S_required \o KeyText[key]

\* planner?.customItems || []
CustomItemsOf(planner) == IF "customItems" \in DOMAIN planner THEN planner.customItems ELSE <<>>

\* planner?.completions || {}
CompletionsOf(planner) == IF "completions" \in DOMAIN planner THEN planner.completions ELSE EmptyMap

\* planner?.remindersEnabled ?? true
RemindersEnabledOrTrue(planner) == IF "remindersEnabled" \in DOMAIN planner THEN planner.remindersEnabled ELSE TRUE

\* completions[dateKey] || {}
DayCompletions(completions, dateKey) == IF dateKey \in DOMAIN completions THEN completions[dateKey] ELSE EmptyMap

\* a lookup that finds no completion flag
NeverCompleted(dayCompletions, entryId) == FALSE

\* a lookup that takes any stored flag, false included, for a completion
HasFlag(dayCompletions, entryId) == entryId \in DOMAIN dayCompletions

\* the truthiness of dayCompletions[entryId]
IsCompleted(dayCompletions, entryId) == entryId \in DOMAIN dayCompletions /\ dayCompletions[entryId]

\* reminder times that ignore planner.reminderTimes
defaultTimesOnly(planner) == defaultReminderTimes

getReminderTimes(planner) ==
  LET overrides == IF "reminderTimes" \in DOMAIN planner THEN planner.reminderTimes ELSE EmptyMap
  IN [key \in RequiredTaskKeys |-> IF key \in DOMAIN overrides THEN overrides[key] ELSE defaultReminderTimes[key]]

RECURSIVE Flatten(_)
Flatten(seqs) == IF seqs = <<>> THEN <<>> ELSE Head(seqs) \o Flatten(Tail(seqs))

\* item.repeat, undefined when the optional field is absent
RepeatOf(item) == IF "repeat" \in DOMAIN item THEN item.repeat ELSE "undefined"

\* a filter that shows every item on its own date only
DueOnItsDate(item, dateKey) == item.date = dateKey

\* (item) => item.repeat === 'daily' ? item.date <= dateKey : item.date === dateKey
DueOn(item, dateKey) == IF RepeatOf(item) = "daily" THEN StrLE(item.date, dateKey) ELSE item.date = dateKey

\* ------------------------------------------------------------------------
\* schedulePlannerNotifications: the descriptor batch
\* ------------------------------------------------------------------------
\* the daily-base descriptor pushed for requiredTaskDefinitions[taskIndex + 1]
DailyBaseNotification(reminderTimes, taskIndex) ==
  LET task == requiredTaskDefinitions[taskIndex + 1]
      hm == HourMinute(reminderTimes[task.key])
  IN [id |-> plannerNotificationId(S_daily \o KeyText[task.key]),
      title |-> task.title,
      schedule |-> [on |-> [hour |-> hm.hour, minute |-> hm.minute], repeats |-> TRUE, allowWhileIdle |-> TRUE],
      channelId |-> requiredNotificationChannels[task.key],
      extra |-> [kind |-> "planner", taskId |-> RequiredTaskId(task.key), required |-> TRUE,
                 order |-> taskIndex, loop |-> "daily-base"]]

\* the follow-up descriptor pushed for one escalation step (reminderIndex is 0-based)
FollowUpNotification(dateKey, taskIndex, reminderIndex, reminderDateTime) ==
  LET task == requiredTaskDefinitions[taskIndex + 1]
      taskId == RequiredTaskId(task.key)
  IN [id |-> plannerNotificationId(dateKey \o S_dash \o taskId \o S_followup \o NumberToString(reminderIndex)),
      title |-> task.title,
      schedule |-> [at |-> reminderDateTime, allowWhileIdle |-> TRUE],
      channelId |-> requiredNotificationChannels[task.key],
      extra |-> [kind |-> "planner", dateKey |-> dateKey, taskId |-> taskId, required |-> TRUE,
                 order |-> taskIndex, reminderIndex |-> reminderIndex, loop |-> "follow-up"]]

\* the body of requiredTaskDefinitions.forEach inside the lookahead loop
TaskFollowUps(reminderTimes, dayCompletions, referenceDate, dateKey, taskIndex) ==
  LET task == requiredTaskDefinitions[taskIndex + 1]
      baseDateTime == createDateTime(dateKey, reminderTimes[task.key])
      steps == requiredReminderSteps[task.key]
      all == [i \in 1..Len(steps) |->
                FollowUpNotification(dateKey, taskIndex, i - 1, AddMinutes(baseDateTime, steps[i]))]
      StillAhead(n) == ~DateLE(n.schedule.at, referenceDate)
  IN IF IsCompleted(dayCompletions, RequiredTaskId(task.key)) THEN <<>>
     ELSE IF DateLE(baseDateTime, referenceDate) THEN <<>>
     ELSE SelectSeq(all, StillAhead)

\* the one-shot descriptor pushed for a custom item
CustomNotification(item, itemDateTime) ==
  [id |-> plannerNotificationId(item.date \o S_dash \o item.id),
   title |-> item.title,
   schedule |-> [at |-> itemDateTime, allowWhileIdle |-> TRUE],
   channelId |-> "planner-reminders",
   extra |-> [kind |-> "planner", dateKey |-> item.date, taskId |-> item.id, required |-> FALSE]]

\* customItems.filter(...).forEach(...) inside the lookahead loop
DayCustomNotifications(customItems, dayCompletions, referenceDate, dateKey) ==
  LET Due(item) == DueOn(item, dateKey) /\ ~IsCompleted(dayCompletions, item.id)
      Emitted(item) == RepeatOf(item) # "daily" /\ ~DateLE(createDateTime(item.date, item.time), referenceDate)
      due == SelectSeq(SelectSeq(customItems, Due), Emitted)
  IN [i \in 1..Len(due) |-> CustomNotification(due[i], createDateTime(due[i].date, due[i].time))]

\* one iteration of for (let dayOffset = 0; dayOffset < 5; dayOffset += 1)
DayNotifications(planner, referenceDate, dayOffset) ==
  LET dateKey == WindowDateKey(referenceDate, dayOffset)
      dayCompletions == DayCompletions(CompletionsOf(planner), dateKey)
      reminderTimes == getReminderTimes(planner)
  IN Flatten([taskIndex \in 1..Len(requiredTaskDefinitions) |->
                TaskFollowUps(reminderTimes, dayCompletions, referenceDate, dateKey, taskIndex - 1)])
     \o DayCustomNotifications(CustomItemsOf(planner), dayCompletions, referenceDate, dateKey)

\* a daily custom item scheduled once, at the instant of its start date
StartDateNotification(item) == CustomNotification(item, createDateTime(item.date, item.time))

\* the repeating descriptor pushed for a daily custom item
DailyCustomNotification(item) ==
  LET hm == HourMinute(item.time)
  IN [id |-> plannerNotificationId(S_dailyCustom \o item.id),
      title |-> item.title,
      schedule |-> [on |-> [hour |-> hm.hour, minute |-> hm.minute], repeats |-> TRUE, allowWhileIdle |-> TRUE],
      channelId |-> "planner-reminders",
      extra |-> [kind |-> "planner", taskId |-> item.id, required |-> FALSE, loop |-> "daily-custom"]]

LookaheadDays == 5

\* the list `notifications` built by schedulePlannerNotifications
BuildNotifications(planner, referenceDate) ==
  LET reminderTimes == getReminderTimes(planner)
      IsDaily(item) == RepeatOf(item) = "daily"
      daily == SelectSeq(CustomItemsOf(planner), IsDaily)
  IN [taskIndex \in 1..Len(requiredTaskDefinitions) |-> DailyBaseNotification(reminderTimes, taskIndex - 1)]
     \o Flatten([d \in 1..LookaheadDays |-> DayNotifications(planner, referenceDate, d - 1)])
     \o [i \in 1..Len(daily) |-> DailyCustomNotification(daily[i])]

\* ------------------------------------------------------------------------
\* Device Notification Port (LocalNotifications): the pending set of the device
\* ------------------------------------------------------------------------
\* notification.extra?.kind
KindOf(notification) ==
  IF "extra" \in DOMAIN notification /\ "kind" \in DOMAIN notification.extra
  THEN notification.extra.kind ELSE "undefined"

\* a selection without the filter on extra.kind
AllNotificationIds(pendingNotifications) == {notification.id : notification \in pendingNotifications}

\* pending.notifications.filter((notification) => notification.extra?.kind === 'planner').map(({ id }) => ({ id }))
PlannerNotificationIds(pendingNotifications) ==
  {notification.id : notification \in {n \in pendingNotifications : KindOf(n) = "planner"}}

\* a cancel that removes nothing
CancelNothing(pendingNotifications, ids) == pendingNotifications

\* LocalNotifications.cancel({ notifications }): removes the pending notifications with these ids
CancelOnDevice(pendingNotifications, ids) == {n \in pendingNotifications : n.id \notin ids}

\* LocalNotifications.schedule({ notifications }): one after the other; a notification
\* scheduled under an id that is already pending replaces it
RECURSIVE ScheduleOnDevice(_, _)
ScheduleOnDevice(pendingNotifications, notifications) ==
  IF notifications = <<>> THEN pendingNotifications
  ELSE ScheduleOnDevice({n \in pendingNotifications : n.id # Head(notifications).id} \cup {Head(notifications)},
                        Tail(notifications))

\* ------------------------------------------------------------------------
\* Entry projector and planner state derivations
\* ------------------------------------------------------------------------
\* left.localeCompare(right) < 0: a comparison under which equal keys change places
LocaleLT(left, right) == left # right /\ StrLE(left, right)

\* left.localeCompare(right) <= 0; on the date and time texts of the planner the
\* collation order is the code-unit order
LocaleLE(left, right) == StrLE(left, right)

\* Array.prototype.sort((left, right) => key(left).localeCompare(key(right))) on
\* [key, value] pairs: a stable insertion sort
RECURSIVE InsertByKey(_, _)
InsertByKey(sorted, pair) ==
  IF sorted = <<>> THEN <<pair>>
  ELSE IF LocaleLE(sorted[Len(sorted)].key, pair.key) THEN Append(sorted, pair)
  ELSE Append(InsertByKey(SubSeq(sorted, 1, Len(sorted) - 1), pair), sorted[Len(sorted)])

RECURSIVE SortPairs(_)
SortPairs(pairs) ==
  IF pairs = <<>> THEN <<>>
  ELSE InsertByKey(SortPairs(SubSeq(pairs, 1, Len(pairs) - 1)), pairs[Len(pairs)])

SortByTime(entries) ==
  LET sorted == SortPairs([i \in 1..Len(entries) |-> [key |-> entries[i].time, value |-> entries[i]]])
  IN [i \in 1..Len(sorted) |-> sorted[i].value]

getPlannerEntries(dateKey, planner) ==
  LET reminderTimes == getReminderTimes(planner)
      completions == DayCompletions(CompletionsOf(planner), dateKey)
      Due(item) == DueOn(item, dateKey)
      customItems == SelectSeq(CustomItemsOf(planner), Due)
      requiredEntries == [i \in 1..Len(requiredTaskDefinitions) |->
          [id |-> RequiredTaskId(requiredTaskDefinitions[i].key),
           title |-> requiredTaskDefinitions[i].title,
           date |-> dateKey,
           time |-> reminderTimes[requiredTaskDefinitions[i].key],
           required |-> TRUE,
           completed |-> IsCompleted(completions, RequiredTaskId(requiredTaskDefinitions[i].key)),
           repeat |-> "daily"]]
      customEntries == [i \in 1..Len(customItems) |->
          [id |-> customItems[i].id,
           title |-> customItems[i].title,
           date |-> customItems[i].date,
           time |-> customItems[i].time,
           required |-> FALSE,
           completed |-> IsCompleted(completions, customItems[i].id),
           repeat |-> IF RepeatOf(customItems[i]) = "undefined" THEN "once" ELSE customItems[i].repeat]]
  IN SortByTime(requiredEntries \o customEntries)

updatePlannerCompletion(planner, dateKey, taskId, completed) ==
  [remindersEnabled |-> RemindersEnabledOrTrue(planner),
   reminderTimes |-> getReminderTimes(planner),
   customItems |-> CustomItemsOf(planner),
   completions |-> MapPut(CompletionsOf(planner), dateKey,
                          MapPut(DayCompletions(CompletionsOf(planner), dateKey), taskId, completed))]

\* an append that leaves the items in the order of their arrival
ArrivalOrder(items) == items

\* items.sort((left, right) => `${left.date}-${left.time}`.localeCompare(`${right.date}-${right.time}`))
SortByDateTime(items) ==
  LET sorted == SortPairs([i \in 1..Len(items) |-> [key |-> items[i].date \o S_dash \o items[i].time, value |-> items[i]]])
  IN [i \in 1..Len(sorted) |-> sorted[i].value]

addPlannerItem(planner, item) ==
  [remindersEnabled |-> RemindersEnabledOrTrue(planner),
   reminderTimes |-> getReminderTimes(planner),
   customItems |-> SortByDateTime(Append(CustomItemsOf(planner),
                                         [id |-> item.id, title |-> item.title, date |-> item.date, time |-> item.time,
                                          repeat |-> IF RepeatOf(item) = "undefined" THEN "once" ELSE item.repeat])),
   completions |-> CompletionsOf(planner)]

\* a removal that drops the item and leaves the completion maps as they are
removeItemOnly(planner, itemId) ==
  LET Kept(item) == item.id # itemId
  IN [remindersEnabled |-> RemindersEnabledOrTrue(planner),
      reminderTimes |-> getReminderTimes(planner),
      customItems |-> SelectSeq(CustomItemsOf(planner), Kept),
      completions |-> CompletionsOf(planner)]

removePlannerItem(planner, itemId) ==
  LET completions == CompletionsOf(planner)
      Kept(item) == item.id # itemId
  IN [remindersEnabled |-> RemindersEnabledOrTrue(planner),
      reminderTimes |-> getReminderTimes(planner),
      customItems |-> SelectSeq(CustomItemsOf(planner), Kept),
      completions |-> [dateKey \in DOMAIN completions |->
                         [entryId \in (DOMAIN completions[dateKey]) \ {itemId} |-> completions[dateKey][entryId]]]]

\* ------------------------------------------------------------------------
\* The planner variant without repeat (PlannerCustomItem has id, title, date, time)
\* ------------------------------------------------------------------------
\* a filter that shows an item on every day from its date on
SimpleDueFrom(item, dateKey) == StrLE(item.date, dateKey)

\* (item) => item.date === dateKey
SimpleDueOn(item, dateKey) == item.date = dateKey

SimpleGetPlannerEntries(dateKey, planner) ==
  LET reminderTimes == getReminderTimes(planner)
      completions == DayCompletions(CompletionsOf(planner), dateKey)
      Due(item) == SimpleDueOn(item, dateKey)
      customItems == SelectSeq(CustomItemsOf(planner), Due)
      requiredEntries == [i \in 1..Len(requiredTaskDefinitions) |->
          [id |-> RequiredTaskId(requiredTaskDefinitions[i].key),
           title |-> requiredTaskDefinitions[i].title,
           date |-> dateKey,
           time |-> reminderTimes[requiredTaskDefinitions[i].key],
           required |-> TRUE,
           completed |-> IsCompleted(completions, RequiredTaskId(requiredTaskDefinitions[i].key))]]
      customEntries == [i \in 1..Len(customItems) |->
          [id |-> customItems[i].id,
           title |-> customItems[i].title,
           date |-> customItems[i].date,
           time |-> customItems[i].time,
           required |-> FALSE,
           completed |-> IsCompleted(completions, customItems[i].id)]]
  IN SortByTime(requiredEntries \o customEntries)

SimpleDailyBaseNotification(reminderTimes, taskIndex) ==
  LET task == requiredTaskDefinitions[taskIndex + 1]
      hm == HourMinute(reminderTimes[task.key])
  IN [id |-> plannerNotificationId(S_daily \o KeyText[task.key]),
      title |-> task.title,
      schedule |-> [on |-> [hour |-> hm.hour, minute |-> hm.minute], repeats |-> TRUE, allowWhileIdle |-> TRUE],
      channelId |-> "planner-reminders",
      extra |-> [kind |-> "planner", taskId |-> RequiredTaskId(task.key), required |-> TRUE,
                 order |-> taskIndex, loop |-> "daily-base"]]

SimpleFollowUpNotification(dateKey, taskIndex, reminderIndex, reminderDateTime) ==
  LET task == requiredTaskDefinitions[taskIndex + 1]
      taskId == RequiredTaskId(task.key)
  IN [id |-> plannerNotificationId(dateKey \o S_dash \o taskId \o S_followup \o NumberToString(reminderIndex)),
      title |-> task.title,
      schedule |-> [at |-> reminderDateTime, allowWhileIdle |-> TRUE],
      channelId |-> "planner-reminders",
      extra |-> [kind |-> "planner", dateKey |-> dateKey, taskId |-> taskId, required |-> TRUE,
                 order |-> taskIndex, reminderIndex |-> reminderIndex, loop |-> "follow-up"]]

SimpleTaskFollowUps(reminderTimes, dayCompletions, referenceDate, dateKey, taskIndex) ==
  LET task == requiredTaskDefinitions[taskIndex + 1]
      baseDateTime == createDateTime(dateKey, reminderTimes[task.key])
      steps == requiredReminderSteps[task.key]
      all == [i \in 1..Len(steps) |->
                SimpleFollowUpNotification(dateKey, taskIndex, i - 1, AddMinutes(baseDateTime, steps[i]))]
      StillAhead(n) == ~DateLE(n.schedule.at, referenceDate)
  IN IF IsCompleted(dayCompletions, RequiredTaskId(task.key)) THEN <<>>
     ELSE IF DateLE(baseDateTime, referenceDate) THEN <<>>
     ELSE SelectSeq(all, StillAhead)

SimpleDayCustomNotifications(customItems, dayCompletions, referenceDate, dateKey) ==
  LET Due(item) == SimpleDueOn(item, dateKey) /\ ~IsCompleted(dayCompletions, item.id)
      Emitted(item) == ~DateLE(createDateTime(item.date, item.time), referenceDate)
      due == SelectSeq(SelectSeq(customItems, Due), Emitted)
  IN [i \in 1..Len(due) |-> CustomNotification(due[i], createDateTime(due[i].date, due[i].time))]

SimpleDayNotifications(planner, referenceDate, dayOffset) ==
  LET dateKey == WindowDateKey(referenceDate, dayOffset)
      dayCompletions == DayCompletions(CompletionsOf(planner), dateKey)
      reminderTimes == getReminderTimes(planner)
  IN Flatten([taskIndex \in 1..Len(requiredTaskDefinitions) |->
                SimpleTaskFollowUps(reminderTimes, dayCompletions, referenceDate, dateKey, taskIndex - 1)])
     \o SimpleDayCustomNotifications(CustomItemsOf(planner), dayCompletions, referenceDate, dateKey)

\* the list `notifications` of the variant, empty when it returns before building it
SimpleBuildNotifications(planner, referenceDate) ==
  IF "remindersEnabled" \in DOMAIN planner /\ planner.remindersEnabled = FALSE THEN <<>>
  ELSE [taskIndex \in 1..Len(requiredTaskDefinitions) |->
          SimpleDailyBaseNotification(getReminderTimes(planner), taskIndex - 1)]
       \o Flatten([d \in 1..5 |-> SimpleDayNotifications(planner, referenceDate, d - 1)])

\* ------------------------------------------------------------------------
\* The planner board (PlannerBoard) and the device
\* ------------------------------------------------------------------------
\* number of planner-board operations of one session
MaxOps == 2

\* number of requests (POST /api/meta, port calls) that fail in one session with an
\* unreliable network or device
MaxFaults == 1

VARIABLES
  platform,     \* Capacitor.getPlatform()
  loggedIn,     \* user and token are both set
  permission,   \* display permission of the device: "granted" | "denied"
  clock,        \* index in ReferenceInstants of the wall-clock reading of the session
  meta,         \* PlannerBoard state `meta` (the planner field may be absent)
  stored,       \* what POST /api/meta last stored (the planner field may be absent)
  saveMessage,  \* PlannerBoard state `saveMessage`
  pending,      \* the notifications pending on the device
  inv,          \* the schedulePlannerNotifications call in flight and its caller
  call,         \* trace of the last schedulePlannerNotifications call: arguments, port calls, result
  ops,          \* operations performed so far
  faults,       \* requests that can still fail in this session
  second,       \* a schedulePlannerNotifications call started while another one is in flight
  probe         \* the planner functions applied on their own: their argument and their result

vars == <<platform, loggedIn, permission, clock, meta, stored, saveMessage, pending, inv, call, ops, faults,
          second, probe>>

Now == ReferenceInstants[clock]

\* the value of an <input type="date"> showing the day dayOffset days after today
DayText(dayOffset) == FormatDateKey(Now \div MinutesPerDay + dayOffset)

\* const planner = meta.planner || { remindersEnabled: true, reminderTimes: defaultReminderTimes, customItems: [], completions: {} }
PlannerOf(m) ==
  IF "planner" \in DOMAIN m THEN m.planner
  ELSE [remindersEnabled |-> TRUE, reminderTimes |-> defaultReminderTimes, customItems |-> <<>>, completions |-> EmptyMap]

\* setMeta((current) => ({ ...current, planner }))
WithPlanner(m, plannerField) == IF plannerField = <<>> THEN EmptyMap ELSE [planner |-> plannerField[1]]

\* meta.planner as an optional value: <<>> when undefined
PlannerField(m) == IF "planner" \in DOMAIN m THEN <<m.planner>> ELSE <<>>

\* a notification of another feature and a follow-up left over from an earlier session
ForeignNotification ==
  [id |-> 7, title |-> "Focus session complete", schedule |-> [at |-> At(2025, 6, 1, 9, 0)], extra |-> [kind |-> "timer"]]
UntaggedNotification ==
  [id |-> 8, title |-> "Welcome back", schedule |-> [at |-> At(2025, 6, 1, 9, 0)]]
StaleNotification ==
  [id |-> plannerNotificationId(StaleKey), title |-> "Drink water",
   schedule |-> [at |-> At(2024, 2, 20, 6, 55), allowWhileIdle |-> TRUE],
   channelId |-> "planner-reminders",
   extra |-> [kind |-> "planner", dateKey |-> DateText(2024, 2, 20), taskId |-> RequiredTaskId("water"),
              required |-> TRUE, order |-> 0, reminderIndex |-> 0, loop |-> "follow-up"]]

Idle == [pc |-> "idle"]

\* no call yet.  The trace of a call holds its caller and the number of the operation
\* that made it, its arguments, what was pending when it started, the display values
\* the permission calls answered, the port calls made in order, the ids of the cancel
\* request, the batch of the schedule request, the port call that rejected, how the
\* call ended, and the arguments and outcome of the call before it
NoCall ==
  [caller |-> "none", op |-> 0, planner |-> EmptyMap, referenceDate |-> 0, before |-> {}, display |-> <<>>,
   log |-> <<>>, cancelled |-> {}, batch |-> <<>>, failed |-> "none", result |-> "none", previous |-> <<>>]

\* no planner function applied: the planner they are applied to, the number of changes
\* made to it, and what was last computed from it
NoProbe ==
  [planner |-> EmptyMap, changes |-> 0, view |-> "none", dateKey |-> <<>>, entries |-> <<>>,
   referenceDate |-> 0, batch |-> <<>>, input |-> <<>>, id |-> 0, shift |-> <<>>, simple |-> <<>>,
   origin |-> EmptyMap, history |-> <<>>, devices |-> <<>>]

\* useState<Record<string, any>>({}) and the load effect: without a login meta stays {},
\* with one it is what the server stored, here a planner saved without its optional fields
Session(unreliable) ==
  /\ platform \in {"android", "web"}
  /\ loggedIn \in BOOLEAN
  /\ permission = "denied"
  /\ clock \in 1..Len(ReferenceInstants)
  /\ meta = IF loggedIn THEN [planner |-> [customItems |-> <<>>, completions |-> EmptyMap]] ELSE EmptyMap
  /\ stored = meta
  /\ saveMessage = "Reminders are ready to configure."
  /\ pending = {ForeignNotification, UntaggedNotification, StaleNotification}
  /\ inv = Idle
  /\ call = NoCall
  /\ ops = 0
  /\ faults = unreliable
  /\ second = Idle
  /\ probe = NoProbe

\* a session in which every request succeeds
Init == Session(0)

\* a session in which up to MaxFaults requests fail
InitFaults == Session(MaxFaults)

\* a login check that lets everybody through
NobodyMustLogin(isLoggedIn) == FALSE

\* if (!user || !token) { onRequireLogin?.(); return }
MustLogin(isLoggedIn) == ~isLoggedIn

\* async function persistPlanner(nextPlanner, message), up to the call of schedulePlannerNotifications
persistPlanner(nextPlanner, message) ==
  /\ inv.pc = "idle"
  /\ second.pc = "idle"
  /\ ops < MaxOps
  /\ ops' = ops + 1
  /\ UNCHANGED <<platform, loggedIn, permission, clock, pending, call, second, probe>>
  /\ IF MustLogin(loggedIn)
     THEN /\ meta' = [planner |-> nextPlanner]
          /\ UNCHANGED <<stored, saveMessage, inv, faults>>
     ELSE \E responseOk \in BOOLEAN :
            IF responseOk
            THEN /\ meta' = [planner |-> nextPlanner]
                 /\ stored' = [planner |-> nextPlanner]
                 /\ saveMessage' = "Saving planner..."
                 /\ inv' = [pc |-> "called", caller |-> "persistPlanner", planner |-> nextPlanner,
                            referenceDate |-> Now, previousPlanner |-> PlannerField(meta), message |-> message]
                 /\ UNCHANGED faults
            ELSE /\ faults > 0
                 /\ faults' = faults - 1
                 /\ meta' = WithPlanner(meta, PlannerField(meta))
                 /\ saveMessage' = "Planner save failed."
                 /\ UNCHANGED <<stored, inv>>

\* the dates selected in the calendar when an entry is ticked or removed: today and the
\* last day of the lookahead window
SelectableDates == {DayText(0), DayText(4)}

\* the required entries that get ticked
TickedRequired == { <<DayText(0), RequiredTaskId("water")>>, <<DayText(4), RequiredTaskId("exercise")>> }

\* async function toggleEntry(taskId, completed), from the checkbox of an entry of the selected day
toggleEntry ==
  \E selectedDate \in SelectableDates :
    LET entries == getPlannerEntries(selectedDate, PlannerOf(meta))
    IN \E i \in 1..Len(entries) :
         /\ entries[i].required => <<selectedDate, entries[i].id>> \in TickedRequired
         /\ persistPlanner(updatePlannerCompletion(PlannerOf(meta), selectedDate, entries[i].id, ~entries[i].completed),
                           IF ~entries[i].completed THEN "Task marked complete. Progress and reminders updated."
                           ELSE "Task reopened. Reminders restored.")

\* the values typed in the time inputs of the required reminders
ReminderTimeEdits == { <<"water", T_seven>>, <<"meditation", T_late>> }

\* async function saveReminderTime(key, value)
saveReminderTime ==
  \E edit \in ReminderTimeEdits :
    LET planner == PlannerOf(meta)
    IN persistPlanner([remindersEnabled |-> RemindersEnabledOrTrue(planner),
                       reminderTimes |-> [getReminderTimes(planner) EXCEPT ![edit[1]] = edit[2]],
                       customItems |-> CustomItemsOf(planner),
                       completions |-> CompletionsOf(planner)],
                      "Daily reminder times updated.")

\* the values of the add-task form (customDate, customTime, customRepeat): today at
\* 07:00, today with the time input cleared, daily from yesterday on, and the day after
\* the lookahead window
NewTaskForms ==
  { [date |-> DayText(0), time |-> T_seven, repeat |-> "once"],
    [date |-> DayText(0), time |-> S_empty, repeat |-> "once"],
    [date |-> DayText(-1), time |-> T_noon, repeat |-> "daily"],
    [date |-> DayText(LookaheadDays), time |-> T_noon, repeat |-> "once"] }

\* the ids already given to custom items
UsedIds(planner) == {CustomItemsOf(planner)[i].id : i \in 1..Len(CustomItemsOf(planner))}

\* async function addCustomTask(), with a non-blank title
addCustomTask ==
  \E form \in NewTaskForms, i \in 1..Len(ItemIds) :
    /\ \A j \in 1..Len(ItemIds) : ItemIds[j] \in UsedIds(PlannerOf(meta)) <=> j < i
    /\ persistPlanner(addPlannerItem(PlannerOf(meta),
                                     [id |-> ItemIds[i], title |-> "Call mom", date |-> form.date,
                                      time |-> form.time, repeat |-> form.repeat]),
                      IF form.repeat = "daily" THEN "Daily repeating task added." ELSE "Planner task added.")

\* async function removeCustomTask(taskId), from the Remove button of an entry of the selected day
removeCustomTask ==
  \E selectedDate \in SelectableDates :
    LET entries == getPlannerEntries(selectedDate, PlannerOf(meta))
    IN \E i \in 1..Len(entries) :
         /\ ~entries[i].required
         /\ persistPlanner(removePlannerItem(PlannerOf(meta), entries[i].id), "Planner task removed.")

\* async function toggleReminders(enabled), from the checkbox showing planner.remindersEnabled !== false
toggleReminders ==
  LET planner == PlannerOf(meta)
      enabled == ~RemindersEnabledOrTrue(planner)
  IN persistPlanner([remindersEnabled |-> enabled,
                     reminderTimes |-> getReminderTimes(planner),
                     customItems |-> CustomItemsOf(planner),
                     completions |-> CompletionsOf(planner)],
                    IF enabled THEN "Reminders enabled." ELSE "Reminders paused.")

\* async function enableReminderPermissions(), up to the call of schedulePlannerNotifications
enableReminderPermissions ==
  /\ inv.pc = "idle"
  /\ second.pc = "idle"
  /\ ops < MaxOps
  /\ ops' = ops + 1
  /\ inv' = [pc |-> "called", caller |-> "enableReminderPermissions", planner |-> PlannerOf(meta),
             referenceDate |-> Now]
  /\ UNCHANGED <<platform, loggedIn, permission, clock, meta, stored, saveMessage, pending, call, faults,
                 second, probe>>

\* ------------------------------------------------------------------------
\* schedulePlannerNotifications against the device
\* ------------------------------------------------------------------------
\* schedulePlannerNotifications returns or throws, and its caller continues:
\* the rest of persistPlanner or of enableReminderPermissions
ReturnToCaller(result) ==
  /\ inv' = Idle
  /\ IF inv.caller = "persistPlanner"
     THEN IF result = "threw"
          THEN /\ meta' = WithPlanner(meta, inv.previousPlanner)
               /\ saveMessage' = "Planner save failed."
          ELSE /\ saveMessage' = inv.message
               /\ UNCHANGED meta
     ELSE /\ saveMessage' = IF result = "threw" THEN "Notification setup failed."
                            ELSE "Notifications are enabled and scheduled."
          /\ UNCHANGED meta

ChannelSetup == <<"checkExactNotificationSetting", "createChannel", "createChannel", "createChannel", "createChannel">>

\* if (permissions.display !== 'granted'), on the answer of checkPermissions
MustRequest(permissions) == permissions.display # "granted"

\* a gate that lets a refused request through
NeverReturn(requested) == FALSE

\* if (requested.display !== 'granted') return, on the answer of requestPermissions
MustReturn(requested) == requested.display # "granted"

\* a disable check that never stops the invocation
NeverDisabled(planner) == FALSE

\* if (planner?.remindersEnabled === false) return
RemindersDisabled(planner) == "remindersEnabled" \in DOMAIN planner /\ planner.remindersEnabled = FALSE

\* channel setup, getPending and cancel; `failure` is the port call that rejects, if any
SweepCalls(trace, gate, plannerNotifications, failure) ==
  IF failure = "createChannel"
  THEN /\ call' = [trace EXCEPT !.log = gate \o <<"checkExactNotificationSetting", "createChannel">>,
                                !.failed = failure, !.result = "threw"]
       /\ ReturnToCaller("threw")
       /\ UNCHANGED pending
  ELSE IF failure = "getPending"
  THEN /\ call' = [trace EXCEPT !.log = gate \o ChannelSetup \o <<"getPending">>, !.failed = failure, !.result = "threw"]
       /\ ReturnToCaller("threw")
       /\ UNCHANGED pending
  ELSE IF plannerNotifications = {}
  THEN /\ failure = "none"
       /\ call' = [trace EXCEPT !.log = gate \o ChannelSetup \o <<"getPending">>]
       /\ inv' = [inv EXCEPT !.pc = "swept"]
       /\ UNCHANGED <<pending, meta, saveMessage>>
  ELSE IF failure = "cancel"
  THEN /\ call' = [trace EXCEPT !.log = gate \o ChannelSetup \o <<"getPending", "cancel">>,
                                !.cancelled = plannerNotifications, !.failed = failure, !.result = "threw"]
       /\ ReturnToCaller("threw")
       /\ UNCHANGED pending
  ELSE /\ call' = [trace EXCEPT !.log = gate \o ChannelSetup \o <<"getPending", "cancel">>,
                                !.cancelled = plannerNotifications]
       /\ pending' = CancelOnDevice(pending, plannerNotifications)
       /\ inv' = [inv EXCEPT !.pc = "swept"]
       /\ UNCHANGED <<meta, saveMessage>>

\* the sweep, a port call rejecting only while requests can still fail
Sweep(trace, gate, plannerNotifications, failure) ==
  /\ IF failure = "none" THEN UNCHANGED faults ELSE faults > 0 /\ faults' = faults - 1
  /\ SweepCalls(trace, gate, plannerNotifications, failure)

\* schedulePlannerNotifications from its first line to the cancellation of the planner
\* notifications: platform check, permission gate, channel setup, getPending, cancel
CheckAndSweep ==
  /\ inv.pc = "called"
  /\ UNCHANGED <<platform, loggedIn, clock, stored, ops, second, probe>>
  /\ LET trace == [caller |-> inv.caller, op |-> ops,
                   planner |-> inv.planner, referenceDate |-> inv.referenceDate, before |-> pending,
                   display |-> <<>>, log |-> <<>>, cancelled |-> {}, batch |-> <<>>, failed |-> "none",
                   result |-> "running",
                   previous |-> IF call.result = "none" THEN <<>>
                                ELSE <<[planner |-> call.planner, referenceDate |-> call.referenceDate,
                                        log |-> call.log, batch |-> call.batch, result |-> call.result]>>]
         plannerNotifications == PlannerNotificationIds(pending)
     IN IF platform = "web"
        THEN /\ call' = [trace EXCEPT !.result = "returned"]
             /\ ReturnToCaller("returned")
             /\ UNCHANGED <<permission, pending, faults>>
        ELSE IF MustRequest([display |-> permission])
        THEN \E requested \in {"granted", "denied"} :
               /\ permission' = requested
               /\ IF MustReturn([display |-> requested])
                  THEN /\ call' = [trace EXCEPT !.display = <<permission, requested>>,
                                                !.log = <<"checkPermissions", "requestPermissions">>,
                                                !.result = "returned"]
                       /\ ReturnToCaller("returned")
                       /\ UNCHANGED <<pending, faults>>
                  ELSE \E failure \in {"none", "createChannel", "getPending", "cancel"} :
                         Sweep([trace EXCEPT !.display = <<permission, requested>>],
                               <<"checkPermissions", "requestPermissions">>, plannerNotifications, failure)
        ELSE /\ UNCHANGED permission
             /\ \E failure \in {"none", "createChannel", "getPending", "cancel"} :
                  Sweep([trace EXCEPT !.display = <<permission>>],
                        <<"checkPermissions">>, plannerNotifications, failure)

\* a schedule call whose rejection is caught inside the function
SwallowSchedule(rejected) == "returned"

\* await LocalNotifications.schedule({ notifications }) as the last statement, outside
\* any try: the function raises when the request rejects and returns otherwise
AwaitSchedule(rejected) == IF rejected THEN "threw" ELSE "returned"

\* a list that leaves out the descriptors whose id was pending when the call began
NotificationsNotPending(planner, referenceDate) ==
  LET NotPending(n) == n.id \notin {m.id : m \in call.before}
  IN SelectSeq(BuildNotifications(planner, referenceDate), NotPending)

\* const notifications = [] and the pushes up to the schedule call: the list is built
\* from the two arguments of the call and from nothing else
NotificationsOf(planner, referenceDate) == BuildNotifications(planner, referenceDate)

\* schedulePlannerNotifications from the global disable check to the schedule call
BuildAndSchedule ==
  /\ inv.pc = "swept"
  /\ UNCHANGED <<platform, loggedIn, permission, clock, stored, ops, second, probe>>
  /\ IF RemindersDisabled(inv.planner)
     THEN /\ call' = [call EXCEPT !.result = "returned"]
          /\ ReturnToCaller("returned")
          /\ UNCHANGED <<pending, faults>>
     ELSE LET notifications == NotificationsOf(inv.planner, inv.referenceDate)
          IN IF Len(notifications) > 0
             THEN \E rejected \in BOOLEAN :
                    IF rejected
                    THEN /\ faults > 0
                         /\ faults' = faults - 1
                         /\ call' = [call EXCEPT !.log = Append(@, "schedule"), !.batch = notifications,
                                                 !.failed = "schedule", !.result = AwaitSchedule(rejected)]
                         /\ ReturnToCaller(AwaitSchedule(rejected))
                         /\ UNCHANGED pending
                    ELSE /\ call' = [call EXCEPT !.log = Append(@, "schedule"), !.batch = notifications,
                                                 !.result = AwaitSchedule(rejected)]
                         /\ pending' = ScheduleOnDevice(pending, notifications)
                         /\ ReturnToCaller(AwaitSchedule(rejected))
                         /\ UNCHANGED faults
             ELSE /\ call' = [call EXCEPT !.result = "returned"]
                  /\ ReturnToCaller("returned")
                  /\ UNCHANGED <<pending, faults>>

Next ==
  \/ toggleEntry
  \/ saveReminderTime
  \/ addCustomTask
  \/ removeCustomTask
  \/ toggleReminders
  \/ enableReminderPermissions
  \/ CheckAndSweep
  \/ BuildAndSchedule

Spec == Init /\ [][Next]_vars

SpecFaults == InitFaults /\ [][Next]_vars

\* ------------------------------------------------------------------------
\* A second call while one is in flight.  Every control of the board is disabled while
\* isSaving is set, and only persistPlanner sets it: while the call made by
\* enableReminderPermissions awaits the device (on the web the call returns before its
\* first await), the "Refresh schedule" button is enabled and can be pressed again
\* ------------------------------------------------------------------------
\* async function enableReminderPermissions(), started while its earlier call has not returned
RefreshDuringRefresh ==
  /\ platform # "web"
  /\ inv.pc # "idle"
  /\ inv.caller = "enableReminderPermissions"
  /\ second.pc = "idle"
  /\ ops < MaxOps
  /\ ops' = ops + 1
  /\ second' = [pc |-> "called", caller |-> "enableReminderPermissions", planner |-> PlannerOf(meta),
                referenceDate |-> Now]
  /\ UNCHANGED <<platform, loggedIn, permission, clock, meta, stored, saveMessage, pending, inv, call, faults, probe>>

\* the second call returns, and enableReminderPermissions continues
OverlapReturn ==
  /\ second' = Idle
  /\ saveMessage' = "Notifications are enabled and scheduled."

\* the second call from its first line to the cancellation of the planner notifications
OverlapCheckAndSweep ==
  /\ second.pc = "called"
  /\ UNCHANGED <<platform, loggedIn, clock, meta, stored, inv, call, ops, faults, probe>>
  /\ LET swept == CancelOnDevice(pending, PlannerNotificationIds(pending))
     IN IF MustRequest([display |-> permission])
        THEN \E requested \in {"granted", "denied"} :
               /\ permission' = requested
               /\ IF MustReturn([display |-> requested])
                  THEN OverlapReturn /\ UNCHANGED pending
                  ELSE /\ pending' = swept
                       /\ second' = [second EXCEPT !.pc = "swept"]
                       /\ UNCHANGED saveMessage
        ELSE /\ pending' = swept
             /\ second' = [second EXCEPT !.pc = "swept"]
             /\ UNCHANGED <<permission, saveMessage>>

\* the second call from the global disable check to the schedule call
OverlapBuildAndSchedule ==
  /\ second.pc = "swept"
  /\ UNCHANGED <<platform, loggedIn, permission, clock, meta, stored, inv, call, ops, faults, probe>>
  /\ pending' = IF RemindersDisabled(second.planner) THEN pending
                ELSE ScheduleOnDevice(pending, BuildNotifications(second.planner, second.referenceDate))
  /\ OverlapReturn

NextOverlap ==
  \/ toggleEntry
  \/ saveReminderTime
  \/ addCustomTask
  \/ removeCustomTask
  \/ toggleReminders
  \/ enableReminderPermissions
  \/ CheckAndSweep
  \/ BuildAndSchedule
  \/ RefreshDuringRefresh
  \/ OverlapCheckAndSweep
  \/ OverlapBuildAndSchedule

SpecOverlap == Init /\ [][NextOverlap]_vars

\* ------------------------------------------------------------------------
\* The functions of planner.ts applied on their own: a planner as the server returns
\* it is changed by addPlannerItem, removePlannerItem and updatePlannerCompletion, and
\* then projected by getPlannerEntries or handed to schedulePlannerNotifications;
\* plannerNotificationId is applied to single keys
\* ------------------------------------------------------------------------
\* number of changes made to one planner
MaxChanges == 2

\* the date key of the day dayOffset days after the first reference instant
ProbeDay(dayOffset) == FormatDateKey(ReferenceInstants[1] \div MinutesPerDay + dayOffset)

T_quarter == <<48, 55, 58, 49, 53>>   \* "07:15"

LegacyId == <<99, 117, 115, 116, 111, 109, 45, 49, 55, 48, 48, 48, 48, 48, 48, 48, 48, 48, 48, 48>>   \* "custom-1700000000000"

\* a planner saved before custom items had a repeat field, with one reminder time
\* overridden ("07:45", the default of meditation) and an item that carries the id of
\* a required entry at the default time of exercise
LegacyPlanner ==
  [reminderTimes |-> [water |-> defaultReminderTimes.meditation],
   customItems |-> << [id |-> RequiredTaskId("water"), title |-> "Refill bottle", date |-> ProbeDay(0), time |-> T_quarter] >>,
   completions |-> EmptyMap]

\* a planner whose reminders are paused, with a daily item that began the day before
PausedPlanner ==
  [remindersEnabled |-> FALSE,
   reminderTimes |-> defaultReminderTimes,
   customItems |-> << [id |-> LegacyId, title |-> "Stretch", date |-> ProbeDay(-1), time |-> T_noon, repeat |-> "daily"] >>,
   completions |-> EmptyMap]

\* a planner saved after one custom item was added and ticked on its day together
\* with the water task
TickedPlanner ==
  updatePlannerCompletion(
    updatePlannerCompletion(
      addPlannerItem(EmptyMap, [id |-> ItemIds[1], title |-> "Stretch", date |-> ProbeDay(0), time |-> T_seven,
                                repeat |-> "once"]),
      ProbeDay(0), ItemIds[1], TRUE),
    ProbeDay(0), RequiredTaskId("water"), TRUE)

\* meta.planner as GET /api/meta returns it: {} stands for a planner without any field
StoredPlanners == {EmptyMap, LegacyPlanner, PausedPlanner, TickedPlanner}

\* the arguments of addPlannerItem besides the id: two items at the same instant, the
\* second without repeat, a daily item that begins in two days at the default time of
\* meditation, and an item whose time is the empty text
ProbeForms ==
  { [title |-> "Call mom", date |-> ProbeDay(0), time |-> T_seven, repeat |-> "once"],
    [title |-> "Pay rent", date |-> ProbeDay(0), time |-> T_seven],
    [title |-> "Read", date |-> ProbeDay(2), time |-> defaultReminderTimes.meditation, repeat |-> "daily"],
    [title |-> "Nap", date |-> ProbeDay(1), time |-> S_empty, repeat |-> "once"] }

\* the (dateKey, taskId) pairs handed to updatePlannerCompletion
ProbeTicks == { <<ProbeDay(0), ItemIds[1]>>, <<ProbeDay(2), ItemIds[1]>>, <<ProbeDay(0), RequiredTaskId("water")>> }

\* the date keys handed to getPlannerEntries: the day before the first reference
\* instant (a leap day) up to three days after it, across the end of the month
ProbeDates == {ProbeDay(dayOffset) : dayOffset \in -1..3}

\* the reference instants handed to schedulePlannerNotifications: 06:00 of the leap
\* day, and 07:00, the instant of the items of that day
ProbeInstants == {ReferenceInstants[1], createDateTime(ProbeDay(0), T_seven)}

S_polygenelubricants == <<112, 111, 108, 121, 103, 101, 110, 101, 108, 117, 98, 114, 105, 99, 97, 110, 116, 115>>   \* "polygenelubricants"

\* the inputs of plannerNotificationId: a key of each kind, the two keys whose hashes
\* coincide, the empty text, and a text whose hash is -2^31
ProbeKeys ==
  { S_daily \o S_water,
    ProbeDay(0) \o S_dash \o S_required \o S_water \o S_followup \o <<48>>,
    ProbeDay(0) \o S_dash \o ItemIds[1],
    ProbeDay(0) \o S_dash \o ItemIds[2],
    S_dailyCustom \o ItemIds[3],
    S_empty,
    S_polygenelubricants }

\* the planner board and the device take no part
BoardAtRest ==
  /\ platform = "android"
  /\ loggedIn = FALSE
  /\ permission = "granted"
  /\ clock = 1
  /\ meta = EmptyMap
  /\ stored = EmptyMap
  /\ saveMessage = "Reminders are ready to configure."
  /\ pending = {}
  /\ inv = Idle
  /\ call = NoCall
  /\ ops = 0
  /\ faults = 0
  /\ second = Idle

InitPlanner ==
  /\ BoardAtRest
  /\ \E planner \in StoredPlanners : probe = [NoProbe EXCEPT !.planner = planner, !.origin = planner]

\* one more change of the planner, nothing computed from it yet; the call is kept with
\* the planner it was given
Changed(planner, change) ==
  /\ probe.view = "none"
  /\ probe.changes < MaxChanges
  /\ probe' = [probe EXCEPT !.planner = planner, !.changes = @ + 1,
                            !.history = Append(@, change @@ [before |-> probe.planner])]
  /\ UNCHANGED <<platform, loggedIn, permission, clock, meta, stored, saveMessage, pending, inv, call, ops, faults, second>>

\* addPlannerItem(planner, item), ids given in creation order as in addCustomTask
ProbeAdd ==
  \E form \in ProbeForms, i \in 1..Len(ItemIds) :
    /\ \A j \in 1..Len(ItemIds) : ItemIds[j] \in UsedIds(probe.planner) <=> j < i
    /\ Changed(addPlannerItem(probe.planner, [id |-> ItemIds[i]] @@ form),
               [op |-> "addPlannerItem", item |-> [id |-> ItemIds[i]] @@ form])

\* removePlannerItem(planner, itemId)
ProbeRemove ==
  \E itemId \in UsedIds(probe.planner) :
    Changed(removePlannerItem(probe.planner, itemId), [op |-> "removePlannerItem", itemId |-> itemId])

\* updatePlannerCompletion(planner, dateKey, taskId, completed)
ProbeComplete ==
  \E tick \in ProbeTicks, completed \in BOOLEAN :
    Changed(updatePlannerCompletion(probe.planner, tick[1], tick[2], completed),
            [op |-> "updatePlannerCompletion", dateKey |-> tick[1], taskId |-> tick[2], completed |-> completed])

\* getPlannerEntries(dateKey, planner), of both variants
ProbeEntries ==
  /\ probe.view = "none"
  /\ \E dateKey \in ProbeDates :
       probe' = [probe EXCEPT !.view = "entries", !.dateKey = dateKey,
                              !.entries = getPlannerEntries(dateKey, probe.planner),
                              !.simple = SimpleGetPlannerEntries(dateKey, probe.planner)]
  /\ UNCHANGED <<platform, loggedIn, permission, clock, meta, stored, saveMessage, pending, inv, call, ops, faults, second>>

\* the planners of the probe in the order they came to be
PlannersSoFar == [i \in 1..Len(probe.history) |-> probe.history[i].before] \o <<probe.planner>>

\* schedulePlannerNotifications(planner, referenceDate) after each change in turn on a
\* device that has granted the permission: the pending notifications after each call
RECURSIVE Rescheduled(_, _, _)
Rescheduled(pendingNotifications, planners, referenceDate) ==
  IF planners = <<>> THEN <<>>
  ELSE LET swept == CancelOnDevice(pendingNotifications, PlannerNotificationIds(pendingNotifications))
           after == IF RemindersDisabled(Head(planners)) THEN swept
                    ELSE ScheduleOnDevice(swept, BuildNotifications(Head(planners), referenceDate))
       IN <<after>> \o Rescheduled(after, Tail(planners), referenceDate)

\* schedulePlannerNotifications(planner, referenceDate) on a device that has granted
\* the permission: the list handed to LocalNotifications.schedule, empty when the
\* function returns before it
ProbeSchedule ==
  /\ probe.view = "none"
  /\ \E referenceDate \in ProbeInstants :
       probe' = [probe EXCEPT !.view = "batch", !.referenceDate = referenceDate,
                              !.batch = IF RemindersDisabled(probe.planner) THEN <<>>
                                        ELSE BuildNotifications(probe.planner, referenceDate),
                              !.simple = SimpleBuildNotifications(probe.planner, referenceDate),
                              !.devices = Rescheduled(pending, PlannersSoFar, referenceDate)]
  /\ UNCHANGED <<platform, loggedIn, permission, clock, meta, stored, saveMessage, pending, inv, call, ops, faults, second>>

\* plannerNotificationId(input)
ProbeId ==
  /\ probe.view = "none"
  /\ \E input \in ProbeKeys :
       probe' = [NoProbe EXCEPT !.view = "id", !.input = input, !.id = plannerNotificationId(input)]
  /\ UNCHANGED <<platform, loggedIn, permission, clock, meta, stored, saveMessage, pending, inv, call, ops, faults, second>>

\* the date keys handed to shiftPlannerDate: around the end of February in a leap
\* year, in a common year, in a century year that is a leap year and in one that is
\* not, the ends of a 30-day month and of a year, and the first and the last years
\* that a four-digit key can name
ShiftKeys ==
  { DateText(2024, 2, 28), DateText(2024, 2, 29), DateText(2023, 2, 28), DateText(2000, 2, 28),
    DateText(1900, 2, 28), DateText(2024, 4, 30), DateText(2024, 12, 31), DateText(2025, 1, 1),
    DateText(9999, 12, 31),
    <<48, 48>> \o DateText(99, 12, 31) }   \* "0099-12-31"

\* the offsets handed to shiftPlannerDate
ShiftOffsets == {-366, -31, -1, 0, 1, 2, 30, 365}

\* shiftPlannerDate(dateKey, offsetDays), applied once, twice in a row, and to the sum
ProbeShift ==
  /\ probe.view = "none"
  /\ \E dateKey \in ShiftKeys, a \in ShiftOffsets, b \in ShiftOffsets :
       probe' = [NoProbe EXCEPT !.view = "shift", !.dateKey = dateKey,
                                !.shift = <<[offsets |-> <<a, b>>,
                                            zero |-> shiftPlannerDate(dateKey, 0),
                                            next |-> shiftPlannerDate(dateKey, 1),
                                            first |-> shiftPlannerDate(dateKey, a),
                                            second |-> shiftPlannerDate(shiftPlannerDate(dateKey, a), b),
                                            sum |-> shiftPlannerDate(dateKey, a + b)]>>]
  /\ UNCHANGED <<platform, loggedIn, permission, clock, meta, stored, saveMessage, pending, inv, call, ops, faults, second>>

NextPlanner ==
  \/ ProbeAdd
  \/ ProbeRemove
  \/ ProbeComplete
  \/ ProbeEntries
  \/ ProbeSchedule
  \/ ProbeId

SpecPlanner == InitPlanner /\ [][NextPlanner]_vars

\* shiftPlannerDate on its own: it takes no planner
InitDates == BoardAtRest /\ probe = NoProbe

NextDates == ProbeShift

SpecDates == InitDates /\ [][NextDates]_vars

\* ------------------------------------------------------------------------
\* Properties of the recorded call: what the last schedulePlannerNotifications call was
\* given, what it asked of the device and what it left pending
\* ------------------------------------------------------------------------
Range(seq) == {seq[i] : i \in 1..Len(seq)}

Ids(notifications) == {n.id : n \in notifications}

\* the notifications whose metadata has kind = "planner"
PlannerTagged(notifications) ==
  {n \in notifications : "extra" \in DOMAIN n /\ "kind" \in DOMAIN n.extra /\ n.extra.kind = "planner"}

\* a call that passed the permission gate and ran to its end without a port failure
RanToCompletion(c) == c.result = "returned" /\ "getPending" \in Range(c.log)

\* the last call ran to its end and handed a batch to schedule
Scheduled == call.result = "returned" /\ "schedule" \in Range(call.log)

\* the last call was given a planner with remindersEnabled = false
CalledDisabled == "remindersEnabled" \in DOMAIN call.planner /\ call.planner.remindersEnabled = FALSE

\* the date key of the day dayOffset days after the reference day of the last call
CallDay(dayOffset) == FormatDateKey(call.referenceDate \div MinutesPerDay + dayOffset)

WindowOffsets == 0..4

\* required-<task> is marked completed for the date key in the planner of the last call
MarkedCompleted(dateKey, key) ==
  /\ "completions" \in DOMAIN call.planner
  /\ dateKey \in DOMAIN call.planner.completions
  /\ RequiredTaskId(key) \in DOMAIN call.planner.completions[dateKey]
  /\ call.planner.completions[dateKey][RequiredTaskId(key)] = TRUE

\* the default anchors 06:45, 07:15, 07:45 as <<hour, minute>>
DefaultAnchor == [water |-> <<6, 45>>, exercise |-> <<7, 15>>, meditation |-> <<7, 45>>]

\* the effective HH:MM of a required task in the planner of the last call, as <<hour, minute>>
EffectiveAnchor(key) ==
  IF "reminderTimes" \in DOMAIN call.planner /\ key \in DOMAIN call.planner.reminderTimes
  THEN <<DigitsValue(call.planner.reminderTimes[key], 1, 2, 0), DigitsValue(call.planner.reminderTimes[key], 4, 5, 0)>>
  ELSE DefaultAnchor[key]

\* the base due instant of a required task on a window day of the last call
BaseDue(dayOffset, key) ==
  LET anchor == EffectiveAnchor(key)
  IN (call.referenceDate \div MinutesPerDay + dayOffset) * MinutesPerDay + anchor[1] * 60 + anchor[2]

\* the positions in the batch of the follow-ups tagged with a date key and a task id
FollowUpsTagged(dateKey, taskId) ==
  {j \in 1..Len(call.batch) :
     /\ "loop" \in DOMAIN call.batch[j].extra
     /\ call.batch[j].extra.loop = "follow-up"
     /\ call.batch[j].extra.dateKey = dateKey
     /\ call.batch[j].extra.taskId = taskId}

\* the positions in the batch of the follow-ups tagged with a date key and a required task
FollowUpsOn(dateKey, key) ==
  LET taskId == RequiredTaskId(key)
  IN FollowUpsTagged(dateKey, taskId)

\* the positions in the batch of the follow-ups tagged with the window day and the task
FollowUps(dayOffset, key) ==
  LET dateKey == CallDay(dayOffset)
  IN FollowUpsOn(dateKey, key)

\* the escalation offsets in minutes
EscalationOffsets == [water |-> <<10, 20, 30, 45, 60>>, exercise |-> <<15, 30, 45>>, meditation |-> <<15, 30, 45>>]

\* C1: when a call that ran to completion follows a call that ran to completion with the
\* same planner state and the same reference instant, the device holds after it the
\* same pending set as before it (what the single call left), no id is pending twice,
\* and every pending planner-tagged notification is a descriptor of the batch
C1_Idempotent ==
  ( /\ RanToCompletion(call)
    /\ call.previous # <<>>
    /\ RanToCompletion(call.previous[1])
    /\ call.previous[1].planner = call.planner
    /\ call.previous[1].referenceDate = call.referenceDate )
  => /\ pending = call.before
     /\ \A m \in pending : \A n \in pending : m.id = n.id => m = n
     /\ PlannerTagged(pending) \subseteq Range(call.batch)

\* a repeated call with a custom reminder in its batch, made on a device on which the
\* first call had found a notification left over from an earlier session
C1_Witness ==
  /\ RanToCompletion(call)
  /\ call.previous # <<>>
  /\ RanToCompletion(call.previous[1])
  /\ call.previous[1].planner = call.planner
  /\ call.previous[1].referenceDate = call.referenceDate
  /\ \E n \in Range(call.batch) : n.extra.required = FALSE
  /\ Cardinality(PlannerTagged(call.before)) > 3
  /\ StaleNotification \notin pending

\* C2: after every sequence of planner changes, each followed by a call that ran to
\* completion, the planner-tagged notifications pending after the last call are exactly
\* the descriptors of the batch computed from the last state
C2_Reconciled ==
  RanToCompletion(call) => PlannerTagged(pending) = Range(call.batch)

\* C3: a call cancels exactly the pending notifications tagged kind = "planner": every
\* notification without the tag that was pending before the call is pending after it,
\* the cancel request names the ids of all the tagged ones, and between the sweep and
\* the schedule request exactly the untagged ones are pending
C3_SweepExactlyPlanner ==
  /\ call.result # "none" => (call.before \ PlannerTagged(call.before)) \subseteq pending
  /\ "getPending" \in Range(call.log) =>
        /\ call.cancelled = Ids(PlannerTagged(call.before))
        /\ "cancel" \in Range(call.log) <=> PlannerTagged(call.before) # {}
  /\ inv.pc = "swept" => pending = call.before \ PlannerTagged(call.before)

\* a completed call that cancelled the left-over follow-up and scheduled a batch beside
\* the two notifications of other owners
C3_Witness ==
  /\ Scheduled
  /\ StaleNotification \in call.before
  /\ StaleNotification.id \in call.cancelled
  /\ StaleNotification \notin pending
  /\ ForeignNotification \in pending
  /\ UntaggedNotification \in pending

\* C4: a call in which the display permission is not granted by checkPermissions and not
\* granted by requestPermissions ends after these two calls, with the pending set of the
\* device unchanged; requestPermissions is called only after checkPermissions did not
\* answer granted
C4_PermissionGate ==
  /\ (call.display # <<>> /\ call.display[Len(call.display)] # "granted") =>
        /\ call.log = <<"checkPermissions", "requestPermissions">>
        /\ call.result = "returned"
        /\ call.cancelled = {}
        /\ call.batch = <<>>
        /\ pending = call.before
  /\ "requestPermissions" \in Range(call.log) => call.display[1] # "granted"
  /\ (call.display # <<>> /\ call.display[1] = "granted") => Len(call.display) = 1

\* a call refused twice on a device that keeps its left-over planner notification
C4_Witness ==
  /\ call.display = <<"denied", "denied">>
  /\ call.result = "returned"
  /\ StaleNotification \in pending
  /\ inv.pc = "idle"

\* C5 as stated: a call with remindersEnabled = false that ran to completion does not
\* call schedule, and nothing that was pending before the call is pending after it
C5_DisabledClearsDevice ==
  (RanToCompletion(call) /\ CalledDisabled) =>
     /\ "schedule" \notin Range(call.log)
     /\ call.before \cap pending = {}

\* C5: a call with remindersEnabled = false that ran to completion does not call
\* schedule, and after it exactly the notifications without the planner tag that were
\* pending before it are pending
C5_DisabledClearsPlanner ==
  (RanToCompletion(call) /\ CalledDisabled) =>
     /\ "schedule" \notin Range(call.log)
     /\ call.batch = <<>>
     /\ pending = call.before \ PlannerTagged(call.before)

\* reminders paused on a device that held the batch of an earlier call
C5_Witness ==
  /\ RanToCompletion(call)
  /\ CalledDisabled
  /\ Cardinality(PlannerTagged(call.before)) > 3
  /\ ForeignNotification \in pending

\* C6: the batch has no follow-up for a window day and a required task marked completed
\* for that day, and a required task not marked completed for a window day, with its base
\* instant after the reference instant, has follow-ups for that day whatever is marked
\* on other days or for other tasks
C6_CompletedSuppression ==
  Scheduled =>
    \A d \in WindowOffsets :
      LET dateKey == CallDay(d)
      IN \A key \in RequiredTaskKeys :
           LET completed == MarkedCompleted(dateKey, key)
               followUps == FollowUpsOn(dateKey, key)
           IN /\ completed => followUps = {}
              /\ (~completed /\ BaseDue(d, key) > call.referenceDate) => followUps # {}

\* water ticked for the reference day before its base time, exercise of that day and
\* water of the next day still followed up
C6_Witness ==
  /\ Scheduled
  /\ MarkedCompleted(CallDay(0), "water")
  /\ BaseDue(0, "water") > call.referenceDate
  /\ FollowUps(0, "water") = {}
  /\ FollowUps(0, "exercise") # {}
  /\ FollowUps(1, "water") # {}

\* C7: the batch has no follow-up for a window day and a required task whose base due
\* instant is at or before the reference instant
C7_PastDueSuppression ==
  Scheduled =>
    \A d \in WindowOffsets : \A key \in RequiredTaskKeys :
      call.referenceDate >= BaseDue(d, key) => FollowUps(d, key) = {}

\* a call at the very base instant of a task, whose first follow-up would still be ahead,
\* while a later task of the day is followed up
C7_Witness ==
  /\ Scheduled
  /\ \E key \in RequiredTaskKeys :
       /\ call.referenceDate = BaseDue(0, key)
       /\ ~MarkedCompleted(CallDay(0), key)
       /\ FollowUps(0, key) = {}
  /\ \E key \in RequiredTaskKeys :
       /\ call.referenceDate > BaseDue(0, key)
       /\ call.referenceDate < BaseDue(0, key) + EscalationOffsets[key][Len(EscalationOffsets[key])]
  /\ FollowUps(0, "meditation") # {}

\* C8: for a window day and a required task not completed on it, with its base due
\* instant after the reference instant, the batch has for each index of the task's offset
\* list exactly one follow-up tagged with the day, the task and the index, a one-shot
\* firing at base + offset, and no follow-up with another index
C8_EscalationFollowUps ==
  Scheduled =>
    \A d \in WindowOffsets :
      LET dateKey == CallDay(d)
      IN \A key \in RequiredTaskKeys :
           (~MarkedCompleted(dateKey, key) /\ BaseDue(d, key) > call.referenceDate) =>
              LET followUps == FollowUpsOn(dateKey, key)
                  base == BaseDue(d, key)
              IN /\ \A i \in 1..Len(EscalationOffsets[key]) :
                      /\ Cardinality({j \in followUps : call.batch[j].extra.reminderIndex = i - 1}) = 1
                      /\ \A j \in followUps :
                           call.batch[j].extra.reminderIndex = i - 1 =>
                             /\ "at" \in DOMAIN call.batch[j].schedule
                             /\ "repeats" \notin DOMAIN call.batch[j].schedule
                             /\ call.batch[j].schedule.at = base + EscalationOffsets[key][i]
                 /\ Cardinality(followUps) = Len(EscalationOffsets[key])

\* water moved to 07:00 and followed up at 08:00 the same day
C8_Witness ==
  /\ Scheduled
  /\ EffectiveAnchor("water") = <<7, 0>>
  /\ "reminderTimes" \in DOMAIN call.planner
  /\ \E j \in FollowUps(0, "water") :
       /\ call.batch[j].extra.reminderIndex = 4
       /\ call.batch[j].schedule.at = (call.referenceDate \div MinutesPerDay) * MinutesPerDay + 8 * 60

\* the positions in the batch of the daily-base descriptors of a required task
DailyBases(key) ==
  LET taskId == RequiredTaskId(key)
  IN {j \in 1..Len(call.batch) :
        /\ "loop" \in DOMAIN call.batch[j].extra
        /\ call.batch[j].extra.loop = "daily-base"
        /\ call.batch[j].extra.taskId = taskId}

\* C9: a call that ran to completion with reminders not disabled hands schedule a batch
\* with exactly three daily-base descriptors, one per required task, repeating and
\* anchored at the effective hour and minute of the task, whatever the completions and
\* the reference instant
C9_BaseDescriptors ==
  (RanToCompletion(call) /\ ~CalledDisabled) =>
     /\ "schedule" \in Range(call.log)
     /\ \A key \in RequiredTaskKeys :
          /\ Cardinality(DailyBases(key)) = 1
          /\ \A j \in DailyBases(key) :
               /\ "on" \in DOMAIN call.batch[j].schedule
               /\ call.batch[j].schedule.repeats = TRUE
               /\ call.batch[j].schedule.on.hour = EffectiveAnchor(key)[1]
               /\ call.batch[j].schedule.on.minute = EffectiveAnchor(key)[2]
               /\ call.batch[j].extra.required = TRUE
     /\ Cardinality({j \in 1..Len(call.batch) :
                       "loop" \in DOMAIN call.batch[j].extra /\ call.batch[j].extra.loop = "daily-base"}) = 3

\* a task with an overridden time, ticked for the reference day, keeps its base descriptor
C9_Witness ==
  /\ Scheduled
  /\ \E key \in RequiredTaskKeys :
       /\ "reminderTimes" \in DOMAIN call.planner
       /\ EffectiveAnchor(key) # DefaultAnchor[key]
       /\ MarkedCompleted(CallDay(0), key)
       /\ FollowUps(0, key) = {}
       /\ Cardinality(DailyBases(key)) = 1

\* C10: every one-shot descriptor of a batch is tagged with the date key of one of the
\* five days starting at the reference day and fires strictly after the reference instant
C10_LookaheadWindow ==
  Scheduled =>
    \A n \in Range(call.batch) :
      "at" \in DOMAIN n.schedule =>
        /\ \E d \in WindowOffsets : n.extra.dateKey = CallDay(d)
        /\ n.schedule.at # NaN
        /\ n.schedule.at > call.referenceDate


\* ------------------------------------------------------------------------
\* Properties of the planner functions applied on their own
\* ------------------------------------------------------------------------
\* a batch was built from a planner whose reminders are not paused
BatchBuilt == probe.view = "batch" /\ ~RemindersDisabled(probe.planner)

\* the date keys of the lookahead window of the probed call
ProbeWindow == {FormatDateKey(probe.referenceDate \div MinutesPerDay + dayOffset) : dayOffset \in WindowOffsets}

\* the completion flag of the probed planner for (dateKey, entryId) is set
ProbeCompleted(dateKey, entryId) ==
  LET completions == CompletionsOf(probe.planner)
  IN /\ dateKey \in DOMAIN completions
     /\ entryId \in DOMAIN completions[dateKey]
     /\ completions[dateKey][entryId]

\* positions in the probed batch of the one-shot descriptors of custom item taskId
OneShotsOf(taskId) ==
  {i \in 1..Len(probe.batch) :
     /\ "at" \in DOMAIN probe.batch[i].schedule
     /\ probe.batch[i].extra.required = FALSE
     /\ probe.batch[i].extra.taskId = taskId}

\* positions in the probed batch of the repeating descriptors of custom item taskId
RepeatingOf(taskId) ==
  {i \in 1..Len(probe.batch) :
     /\ "on" \in DOMAIN probe.batch[i].schedule
     /\ probe.batch[i].extra.required = FALSE
     /\ probe.batch[i].extra.taskId = taskId}

\* the wall-clock reading <<hour, minute>> of a well-formed HH:MM text, <<>> otherwise
ClockReading(time) ==
  IF Len(time) = 5 /\ time[3] = 58 /\ \A i \in {1, 2, 4, 5} : IsDigit(time[i])
       /\ (time[1] - 48) * 10 + (time[2] - 48) < 24 /\ (time[4] - 48) * 10 + (time[5] - 48) < 60
  THEN <<(time[1] - 48) * 10 + (time[2] - 48), (time[4] - 48) * 10 + (time[5] - 48)>>
  ELSE <<>>

\* the day number of a date key of the probe, <<>> when it is none of them
ProbeDayNumber(dateKey) ==
  LET known == {d \in -2..8 : ProbeDay(d) = dateKey}
  IN IF known = {} THEN <<>> ELSE <<ReferenceInstants[1] \div MinutesPerDay + (CHOOSE d \in known : TRUE)>>

\* C11: a custom item with repeat once or absent has a one-shot descriptor at its
\* (date, time) instant exactly when its date is a window day, it is not marked
\* completed for that date and that instant lies strictly after the reference instant,
\* and then exactly one; a daily custom item has no one-shot descriptor
C11_CustomOneShots ==
  BatchBuilt =>
    \A k \in 1..Len(CustomItemsOf(probe.planner)) :
      LET item == CustomItemsOf(probe.planner)[k]
          day == ProbeDayNumber(item.date)
          reading == ClockReading(item.time)
          ahead == /\ day # <<>>
                   /\ reading # <<>>
                   /\ day[1] * MinutesPerDay + reading[1] * 60 + reading[2] > probe.referenceDate
          expected == item.date \in ProbeWindow /\ ~ProbeCompleted(item.date, item.id) /\ ahead
      IN IF RepeatOf(item) = "daily" THEN OneShotsOf(item.id) = {}
         ELSE IF expected
         THEN /\ Cardinality(OneShotsOf(item.id)) = 1
              /\ \A i \in OneShotsOf(item.id) :
                   /\ probe.batch[i].schedule.at = day[1] * MinutesPerDay + reading[1] * 60 + reading[2]
                   /\ probe.batch[i].extra.dateKey = item.date
         ELSE OneShotsOf(item.id) = {}

\* C12: when reminders are enabled the batch holds exactly one repeating descriptor for
\* each daily custom item, anchored at the hour and minute of the item's time, and
\* none for an item with repeat once or absent, whatever the item's start date and its
\* completion flags; no other repeating descriptor of a custom item is in the batch
C12_CustomDaily ==
  BatchBuilt =>
    /\ \A k \in 1..Len(CustomItemsOf(probe.planner)) :
         LET item == CustomItemsOf(probe.planner)[k]
             reading == ClockReading(item.time)
         IN IF RepeatOf(item) = "daily"
            THEN /\ Cardinality(RepeatingOf(item.id)) = 1
                 /\ reading # <<>>
                 /\ \A i \in RepeatingOf(item.id) :
                      /\ probe.batch[i].schedule.on = [hour |-> reading[1], minute |-> reading[2]]
                      /\ probe.batch[i].schedule.repeats
            ELSE RepeatingOf(item.id) = {}
    /\ \A i \in 1..Len(probe.batch) :
         ("on" \in DOMAIN probe.batch[i].schedule /\ ~probe.batch[i].extra.required) =>
           \E k \in 1..Len(CustomItemsOf(probe.planner)) :
             /\ CustomItemsOf(probe.planner)[k].id = probe.batch[i].extra.taskId
             /\ RepeatOf(CustomItemsOf(probe.planner)[k]) = "daily"

\* a batch built on the reference day for a daily item that begins two days later and
\* is marked completed on its first day, next to an item without repeat
C12_Witness ==
  /\ BatchBuilt
  /\ \E k, l \in 1..Len(CustomItemsOf(probe.planner)) :
       LET item == CustomItemsOf(probe.planner)[k]
       IN /\ RepeatOf(item) = "daily"
          /\ item.date = ProbeDay(2)
          /\ ProbeCompleted(item.date, item.id)
          /\ Cardinality(RepeatingOf(item.id)) = 1
          /\ RepeatOf(CustomItemsOf(probe.planner)[l]) = "undefined"

\* ------------------------------------------------------------------------
\* Properties of a session in which requests fail
\* ------------------------------------------------------------------------
\* the port call on which the recorded call raised, "none" when it did not raise
RaisedOn == IF call.result = "threw" THEN call.log[Len(call.log)] ELSE "none"

\* C13: a failure of getPending or of cancel is not fatal: the invocation does not
\* raise to its caller on either of them (it goes on to build and schedule the batch)
C13_SweepFailureNonFatal == RaisedOn \notin {"getPending", "cancel"}

\* the recorded call was made by persistPlanner, after POST /api/meta answered ok, and
\* it raised; persistPlanner has continued and no operation has begun since
SaveThenFailure ==
  /\ call.caller = "persistPlanner"
  /\ call.result = "threw"
  /\ inv.pc = "idle"
  /\ ops = call.op

\* C14: a failure of the scheduler does not block the save: after a write that
\* succeeded and a scheduler call that raised, the planner of the board is the planner
\* that was written, and the save is not reported as failed
C14_SaveNotBlocked ==
  SaveThenFailure =>
    /\ stored = [planner |-> call.planner]
    /\ meta = stored
    /\ saveMessage # "Planner save failed."

\* C15: when the schedule request rejects, schedulePlannerNotifications raises to its
\* caller, which reports the failure, and no planner-tagged notification that was
\* pending before the call is pending any more: the sweep has run
C15_ScheduleErrorPropagates ==
  call.failed = "schedule" =>
    /\ call.result = "threw"
    /\ \A n \in call.before : KindOf(n) = "planner" => n \notin pending
    /\ (inv.pc = "idle" /\ ops = call.op) =>
         saveMessage = IF call.caller = "persistPlanner" THEN "Planner save failed."
                       ELSE "Notification setup failed."

\* the schedule request of a call that had cancelled a stale planner notification
\* rejected, and the caller has continued
C15_Witness ==
  /\ call.failed = "schedule"
  /\ StaleNotification \in call.before
  /\ StaleNotification.id \in call.cancelled
  /\ Len(call.batch) > 0
  /\ inv.pc = "idle"
  /\ ops = call.op

\* ------------------------------------------------------------------------
\* Properties of the board when a button can be pressed while a call is in flight
\* ------------------------------------------------------------------------
\* C16: the board never has two schedulePlannerNotifications calls in flight at the
\* same time: a call starts only after the call before it has returned
C16_Serialised == ~(inv.pc # "idle" /\ second.pc # "idle")

\* ------------------------------------------------------------------------
\* Properties of the order of write and call
\* ------------------------------------------------------------------------
\* C17 as stated: every call in flight was made with a user logged in, after a write
\* that stored the planner the call was given
C17_EveryCallAfterWrite ==
  inv.pc # "idle" => (loggedIn /\ stored = [planner |-> inv.planner])

\* C17: a call made by persistPlanner is made by a logged-in user in the step in which
\* POST /api/meta has stored the planner the call is given, the planner the board then
\* shows; a step in which the user is not logged in or the write fails stores nothing
\* and starts no call, except that of enableReminderPermissions, which writes nothing
C17_PersistBeforeSchedule ==
  [][/\ (inv.pc = "idle" /\ inv'.pc = "called" /\ inv'.caller = "persistPlanner") =>
          /\ loggedIn
          /\ faults' = faults
          /\ stored' = [planner |-> inv'.planner]
          /\ meta' = stored'
     /\ (inv.pc = "idle" /\ (~loggedIn \/ faults' # faults)) =>
          /\ stored' = stored
          /\ inv'.pc = "called" => inv'.caller = "enableReminderPermissions"
     /\ (inv.pc = "idle" /\ inv'.pc = "called" /\ inv'.caller = "enableReminderPermissions") =>
          /\ stored' = stored
          /\ inv'.planner = PlannerOf(meta)]_vars

\* a call made by persistPlanner is in flight with the planner just stored, after the
\* write of an earlier change had failed
C17_Witness ==
  /\ inv.pc = "called"
  /\ inv.caller = "persistPlanner"
  /\ loggedIn
  /\ stored = [planner |-> inv.planner]
  /\ saveMessage = "Saving planner..."
  /\ call = NoCall
  /\ ops = MaxOps
  /\ faults < MaxFaults

\* ------------------------------------------------------------------------
\* Properties of plannerNotificationId and of the projection
\* ------------------------------------------------------------------------
\* the logical key of a descriptor, rebuilt from its tags
LogicalKey(notification) ==
  LET extra == notification.extra
  IN IF "loop" \in DOMAIN extra /\ extra.loop = "daily-base"
     THEN S_daily \o SubSeq(extra.taskId, Len(S_required) + 1, Len(extra.taskId))
     ELSE IF "loop" \in DOMAIN extra /\ extra.loop = "follow-up"
     THEN extra.dateKey \o S_dash \o extra.taskId \o S_followup \o NumberToString(extra.reminderIndex)
     ELSE IF "loop" \in DOMAIN extra /\ extra.loop = "daily-custom"
     THEN S_dailyCustom \o extra.taskId
     ELSE extra.dateKey \o S_dash \o extra.taskId

\* Math.abs(hash) % 2000000000 of the probed keys as a JavaScript engine computes it,
\* hash being -1332674461, 1202493099, 1694286951 (twice), -880039632, 0 and -2147483648
EngineId(input) ==
  IF input = S_daily \o S_water THEN 1332674461
  ELSE IF input = ProbeDay(0) \o S_dash \o S_required \o S_water \o S_followup \o <<48>> THEN 1202493099
  ELSE IF input = ProbeDay(0) \o S_dash \o ItemIds[1] THEN 1694286951
  ELSE IF input = ProbeDay(0) \o S_dash \o ItemIds[2] THEN 1694286951
  ELSE IF input = S_dailyCustom \o ItemIds[3] THEN 880039632
  ELSE IF input = S_empty THEN 0
  ELSE 147483648

\* C18: the id of a key is the 32-bit wrapping hash of its text, in absolute value
\* modulo 2000000000: an integer from 0 up to 1999999999 for every key, also for a
\* text whose hash is -2^31; and the id of every descriptor of a batch is the id of
\* its logical key, so that the same logical reminder has the same id in every batch
C18_NotificationIdentity ==
  /\ probe.view = "id" =>
       /\ probe.id \in Int
       /\ 0 <= probe.id /\ probe.id < 2000000000
       /\ probe.id = EngineId(probe.input)
  /\ probe.view = "batch" =>
       \A i \in 1..Len(probe.batch) :
         /\ 0 <= probe.batch[i].id /\ probe.batch[i].id < 2000000000
         /\ probe.batch[i].id = plannerNotificationId(LogicalKey(probe.batch[i]))

\* plannerNotificationId has been applied to a text whose hash is -2^31
C18_Witness ==
  /\ probe.view = "id"
  /\ probe.input = S_polygenelubricants
  /\ HashLoop(probe.input) = <<32768, 0>>
  /\ probe.id = 147483648

\* positions in the probed projection of the custom entries with this id
CustomEntriesOf(entryId) ==
  {i \in 1..Len(probe.entries) : ~probe.entries[i].required /\ probe.entries[i].id = entryId}

\* C19: a custom item is in the projection of date key d exactly when it is daily and
\* its date is d or an earlier day, or it is not daily (once, or repeat absent) and its
\* date is d; it is there once, and the projection holds no other custom entry
C19_CustomInclusion ==
  probe.view = "entries" =>
    LET items == CustomItemsOf(probe.planner)
        day == ProbeDayNumber(probe.dateKey)
        Included(item) ==
          IF RepeatOf(item) = "daily"
          THEN ProbeDayNumber(item.date) # <<>> /\ day # <<>> /\ ProbeDayNumber(item.date)[1] <= day[1]
          ELSE item.date = probe.dateKey
    IN /\ \A k \in 1..Len(items) :
            Cardinality(CustomEntriesOf(items[k].id)) = IF Included(items[k]) THEN 1 ELSE 0
       /\ \A i \in 1..Len(probe.entries) :
            ~probe.entries[i].required => \E k \in 1..Len(items) : items[k].id = probe.entries[i].id

\* the projection of the day after a daily item began holds that item and leaves out
\* an item without repeat of an earlier day
C19_Witness ==
  /\ probe.view = "entries"
  /\ probe.dateKey = ProbeDay(3)
  /\ \E k, l \in 1..Len(CustomItemsOf(probe.planner)) :
       LET daily == CustomItemsOf(probe.planner)[k]
           once == CustomItemsOf(probe.planner)[l]
       IN /\ RepeatOf(daily) = "daily" /\ daily.date = ProbeDay(2)
          /\ Cardinality(CustomEntriesOf(daily.id)) = 1
          /\ RepeatOf(once) = "undefined" /\ once.date = ProbeDay(0)
          /\ CustomEntriesOf(once.id) = {}

\* minutes of a time text for the order of the day, the empty text before every time
TimeRank(time) ==
  IF ClockReading(time) = <<>> THEN -1 ELSE ClockReading(time)[1] * 60 + ClockReading(time)[2]

\* the place of an entry in the list the projection sorts: the required entries in the
\* order water, exercise, meditation, then the custom entries in the order of customItems
InputPlace(entry) ==
  IF entry.required
  THEN CHOOSE i \in 1..Len(requiredTaskDefinitions) : RequiredTaskId(requiredTaskDefinitions[i].key) = entry.id
  ELSE Len(requiredTaskDefinitions)
         + (CHOOSE k \in 1..Len(CustomItemsOf(probe.planner)) : CustomItemsOf(probe.planner)[k].id = entry.id)

\* C20: the projection is in ascending order of time, and entries with the same time
\* are in their input order: required entries before custom entries, required entries
\* in the order water, exercise, meditation, custom entries in the order of customItems
C20_ProjectionOrder ==
  probe.view = "entries" =>
    \A i, j \in 1..Len(probe.entries) :
      i < j =>
        \/ TimeRank(probe.entries[i].time) < TimeRank(probe.entries[j].time)
        \/ /\ probe.entries[i].time = probe.entries[j].time
           /\ InputPlace(probe.entries[i]) < InputPlace(probe.entries[j])

\* a projection with two required entries at the same time, a custom entry at the time
\* of a required entry and two custom entries at the same time
C20_Witness ==
  /\ probe.view = "entries"
  /\ \E i, j \in 1..Len(probe.entries) :
       /\ i < j /\ probe.entries[i].required /\ probe.entries[j].required
       /\ probe.entries[i].time = probe.entries[j].time
  /\ \E i, j \in 1..Len(probe.entries) :
       /\ i < j /\ probe.entries[i].required /\ ~probe.entries[j].required
       /\ probe.entries[i].time = probe.entries[j].time
  /\ \E i, j \in 1..Len(probe.entries) :
       /\ i < j /\ ~probe.entries[i].required /\ ~probe.entries[j].required
       /\ probe.entries[i].time = probe.entries[j].time

\* positions in the probed projection of the required entries
RequiredEntries == {i \in 1..Len(probe.entries) : probe.entries[i].required}

\* C21: the projection of every date key and planner holds exactly three required
\* entries, one for each of water, exercise and meditation with the id of that task,
\* whose completed flag is the flag the completions map holds for the date key and
\* that id, false when it holds none; custom items, whatever their ids, do not change that
C21_ThreeRequired ==
  probe.view = "entries" =>
    /\ Cardinality(RequiredEntries) = 3
    /\ \A key \in RequiredTaskKeys :
         /\ Cardinality({i \in RequiredEntries : probe.entries[i].id = RequiredTaskId(key)}) = 1
         /\ \A i \in RequiredEntries :
              probe.entries[i].id = RequiredTaskId(key) =>
                probe.entries[i].completed = ProbeCompleted(probe.dateKey, RequiredTaskId(key))

\* the projection of a day on which water is marked completed, for a planner with a
\* custom item whose id is that of the required water entry
C21_Witness ==
  /\ probe.view = "entries"
  /\ CustomEntriesOf(RequiredTaskId("water")) # {}
  /\ ProbeCompleted(probe.dateKey, RequiredTaskId("water"))
  /\ \E i \in RequiredEntries : probe.entries[i].id = RequiredTaskId("water") /\ probe.entries[i].completed
  /\ \E i \in RequiredEntries : ~probe.entries[i].completed

\* the date key or the time of a custom item is no date or no time of day
Malformed(item) == ProbeDayNumber(item.date) = <<>> \/ ClockReading(item.time) = <<>>

\* the planner without its malformed custom items
WithoutMalformed(planner) ==
  LET WellFormed(item) == ~Malformed(item)
  IN IF "customItems" \in DOMAIN planner
     THEN [planner EXCEPT !.customItems = SelectSeq(planner.customItems, WellFormed)]
     ELSE planner

\* C22: a custom item whose date key or time cannot be parsed has no descriptor and no
\* projected entry, and the batch and the projection are those of the planner without
\* that item
C22_MalformedIsolation ==
  /\ BatchBuilt =>
       /\ \A k \in 1..Len(CustomItemsOf(probe.planner)) :
            Malformed(CustomItemsOf(probe.planner)[k]) =>
              OneShotsOf(CustomItemsOf(probe.planner)[k].id) \cup RepeatingOf(CustomItemsOf(probe.planner)[k].id) = {}
       /\ probe.batch = BuildNotifications(WithoutMalformed(probe.planner), probe.referenceDate)
  /\ probe.view = "entries" =>
       /\ \A k \in 1..Len(CustomItemsOf(probe.planner)) :
            Malformed(CustomItemsOf(probe.planner)[k]) => CustomEntriesOf(CustomItemsOf(probe.planner)[k].id) = {}
       /\ probe.entries = getPlannerEntries(probe.dateKey, WithoutMalformed(probe.planner))

\* ------------------------------------------------------------------------
\* Properties of two calls of one session
\* ------------------------------------------------------------------------
\* the call before the recorded one reached the schedule request, and the recorded
\* call ran to completion with the same planner and the same reference instant
SameArgumentsTwice ==
  /\ RanToCompletion(call)
  /\ call.previous # <<>>
  /\ call.previous[1].result = "returned"
  /\ "schedule" \in Range(call.previous[1].log)
  /\ call.previous[1].planner = call.planner
  /\ call.previous[1].referenceDate = call.referenceDate

KeyFields(text) ==
  IF /\ Len(text) = 10
     /\ text[5] = 45 /\ text[8] = 45
     /\ \A i \in {1, 2, 3, 4, 6, 7, 9, 10} : IsDigit(text[i])
  THEN << (text[1] - 48) * 1000 + (text[2] - 48) * 100 + (text[3] - 48) * 10 + (text[4] - 48),
          (text[6] - 48) * 10 + (text[7] - 48),
          (text[9] - 48) * 10 + (text[10] - 48) >>
  ELSE <<>>

LeapYear(year) == (year % 4 = 0 /\ year % 100 # 0) \/ year % 400 = 0

DaysInMonth(year, month) ==
  IF month = 2 THEN (IF LeapYear(year) THEN 29 ELSE 28)
  ELSE IF month \in {4, 6, 9, 11} THEN 30 ELSE 31

\* the text names a day of the calendar
CalendarKey(text) ==
  /\ KeyFields(text) # <<>>
  /\ KeyFields(text)[2] \in 1..12
  /\ KeyFields(text)[3] \in 1..DaysInMonth(KeyFields(text)[1], KeyFields(text)[2])

\* the day after <<year, month, day>>
DayAfter(fields) ==
  IF fields[3] < DaysInMonth(fields[1], fields[2]) THEN <<fields[1], fields[2], fields[3] + 1>>
  ELSE IF fields[2] < 12 THEN <<fields[1], fields[2] + 1, 1>>
  ELSE <<fields[1] + 1, 1, 1>>

\* left sorts strictly before right as a text
TextBefore(left, right) == left # right /\ StrLE(left, right)

\* C24: for a valid date key, a shift by 0 gives the key back, two shifts in a row give
\* the shift by the sum, a shift by 1 gives the next day of the calendar, and every
\* result is a zero-padded YYYY-MM-DD key of a calendar day, a later day sorting
\* after an earlier one as a text
C24_ShiftCalendar ==
  (probe.view = "shift" /\ CalendarKey(probe.dateKey)) =>
    LET r == probe.shift[1]
    IN /\ r.zero = probe.dateKey
       /\ r.second = r.sum
       /\ \A text \in {r.zero, r.next, r.first, r.second, r.sum} : CalendarKey(text)
       /\ KeyFields(r.next) = DayAfter(KeyFields(probe.dateKey))
       /\ r.offsets[1] > 0 => TextBefore(probe.dateKey, r.first)
       /\ r.offsets[1] < 0 => TextBefore(r.first, probe.dateKey)
       /\ r.offsets[2] > 0 => TextBefore(r.first, r.sum)
       /\ r.offsets[2] < 0 => TextBefore(r.sum, r.first)

\* ------------------------------------------------------------------------
\* The two planner variants side by side
\* ------------------------------------------------------------------------
NoDailyItem(planner) == \A i \in 1..Len(CustomItemsOf(planner)) : RepeatOf(CustomItemsOf(planner)[i]) # "daily"

\* an entry without its repeat field
WithoutRepeat(entry) == [field \in (DOMAIN entry) \ {"repeat"} |-> entry[field]]

\* what the claim compares of a descriptor: everything but channelId
WithoutChannel(notification) == [field \in (DOMAIN notification) \ {"channelId"} |-> notification[field]]

\* C25: on a planner without daily custom items the variant without repeat projects
\* the same entries in the same order as the repeat-capable one (repeat aside) and
\* builds a batch with the same ids, schedules and extra tags in the same order,
\* differing at most in channelId
C25_SimpleVariantAgrees ==
  NoDailyItem(probe.planner) =>
    /\ probe.view = "entries" =>
          /\ Len(probe.simple) = Len(probe.entries)
          /\ \A i \in 1..Len(probe.entries) : probe.simple[i] = WithoutRepeat(probe.entries[i])
    /\ probe.view = "batch" =>
          /\ Len(probe.simple) = Len(probe.batch)
          /\ \A i \in 1..Len(probe.batch) : WithoutChannel(probe.simple[i]) = WithoutChannel(probe.batch[i])

\* both cases of C25 on a planner with a custom item due on the projected day or in
\* the window: the entries hold it, the batch holds its one-shot and follow-ups whose
\* channel differs between the variants
C25_Witness ==
  /\ NoDailyItem(probe.planner)
  /\ CustomItemsOf(probe.planner) # <<>>
  /\ \/ /\ probe.view = "entries"
        /\ \E i \in 1..Len(probe.simple) : ~probe.simple[i].required
     \/ /\ probe.view = "batch"
        /\ \E i \in 1..Len(probe.simple) : ~probe.simple[i].extra.required
        /\ \E i \in 1..Len(probe.simple) : probe.simple[i].channelId # probe.batch[i].channelId

\* ------------------------------------------------------------------------
\* Properties of the planner state derivations
\* ------------------------------------------------------------------------
\* the items handed to addPlannerItem and not handed to removePlannerItem since
RECURSIVE LiveItems(_)
LiveItems(history) ==
  IF history = <<>> THEN {}
  ELSE LET change == history[Len(history)]
           earlier == LiveItems(SubSeq(history, 1, Len(history) - 1))
       IN IF change.op = "addPlannerItem" THEN earlier \cup {change.item}
          ELSE IF change.op = "removePlannerItem" THEN {item \in earlier : item.id # change.itemId}
          ELSE earlier

\* the text customItems is sorted by
DateTimeKey(item) == item.date \o S_dash \o item.time

\* the item as the claim wants it stored
StoredForm(item) == IF "repeat" \in DOMAIN item THEN item ELSE item @@ [repeat |-> "once"]

\* C26: from an empty planner, after any calls of addPlannerItem, removePlannerItem and
\* updatePlannerCompletion, customItems is ascending by "<date>-<time>", holds every
\* item added and not removed since exactly once, and every stored item has repeat set
C26_CustomItemsSorted ==
  probe.origin = EmptyMap =>
    LET items == CustomItemsOf(probe.planner)
        live == LiveItems(probe.history)
    IN /\ \A i \in 1..Len(items) - 1 : StrLE(DateTimeKey(items[i]), DateTimeKey(items[i + 1]))
       /\ \A item \in live : Cardinality({i \in 1..Len(items) : items[i] = StoredForm(item)}) = 1
       /\ \A i \in 1..Len(items) : \E item \in live : items[i] = StoredForm(item)
       /\ Len(items) = Cardinality(live)
       /\ \A i \in 1..Len(items) : "repeat" \in DOMAIN items[i] /\ items[i].repeat \in {"once", "daily"}

\* two items live, the later added one sorting first, one of them added without repeat
C26_Witness ==
  /\ probe.origin = EmptyMap
  /\ Len(probe.history) = 2
  /\ probe.history[1].op = "addPlannerItem" /\ probe.history[2].op = "addPlannerItem"
  /\ "repeat" \notin DOMAIN probe.history[2].item
  /\ TextBefore(DateTimeKey(probe.history[2].item), DateTimeKey(probe.history[1].item))
  /\ Len(CustomItemsOf(probe.planner)) = 2
  /\ CustomItemsOf(probe.planner)[1].id = probe.history[2].item.id

\* the last call that changed the planner
LastChange == probe.history[Len(probe.history)]

\* the completion flags of a planner as a set of <<day, entry id, flag>>
FlagsOf(planner) ==
  LET completions == CompletionsOf(planner)
  IN UNION {{<<dateKey, entryId, completions[dateKey][entryId]>> : entryId \in DOMAIN completions[dateKey]} :
            dateKey \in DOMAIN completions}

\* the items of a list other than the one with this id, in their order
OthersOf(items, itemId) ==
  LET Other(item) == item.id # itemId
  IN SelectSeq(items, Other)

\* C27: removePlannerItem(planner, id) returns a planner with no custom item of that id
\* and no completion flag for that id on any day; the other custom items in their order,
\* the flags of every other id on every day, remindersEnabled and the effective reminder
\* times are those of the planner given (the planner given is a value, never written to)
C27_RemoveFrame ==
  (probe.history # <<>> /\ LastChange.op = "removePlannerItem" /\ probe.view = "none") =>
    LET before == LastChange.before
        after == probe.planner
        itemId == LastChange.itemId
    IN /\ \A i \in 1..Len(CustomItemsOf(after)) : CustomItemsOf(after)[i].id # itemId
       /\ \A flag \in FlagsOf(after) : flag[2] # itemId
       /\ CustomItemsOf(after) = OthersOf(CustomItemsOf(before), itemId)
       /\ FlagsOf(after) = {flag \in FlagsOf(before) : flag[2] # itemId}
       /\ RemindersEnabledOrTrue(after) = RemindersEnabledOrTrue(before)
       /\ getReminderTimes(after) = getReminderTimes(before)

\* an item removed that had a completion flag, beside a flag of another entry that stays
C27_Witness ==
  /\ probe.history # <<>> /\ LastChange.op = "removePlannerItem" /\ probe.view = "none"
  /\ \E flag \in FlagsOf(LastChange.before) : flag[2] = LastChange.itemId
  /\ FlagsOf(probe.planner) # {}

\* ------------------------------------------------------------------------
\* Properties of the follow-ups and of the ids of one batch
\* ------------------------------------------------------------------------
\* positions in the probed batch of the follow-ups of a required task on a day
FollowUpsOf(dateKey, key) ==
  {i \in 1..Len(probe.batch) :
     /\ "loop" \in DOMAIN probe.batch[i].extra
     /\ probe.batch[i].extra.loop = "follow-up"
     /\ probe.batch[i].extra.dateKey = dateKey
     /\ probe.batch[i].extra.taskId = RequiredTaskId(key)}

\* the number of escalation steps of each required task
FullEscalation == [water |-> 5, exercise |-> 3, meditation |-> 3]

\* C28: for every day of the window and every required task the batch holds either no
\* follow-up or one follow-up per escalation step (5 for water, 3 for exercise and for
\* meditation), with the step indexes 0..n-1, never a part of the list
C28_FollowUpsAllOrNothing ==
  BatchBuilt =>
    \A dateKey \in ProbeWindow, key \in RequiredTaskKeys :
      LET followUps == FollowUpsOf(dateKey, key)
      IN \/ followUps = {}
         \/ /\ Cardinality(followUps) = FullEscalation[key]
            /\ {probe.batch[i].extra.reminderIndex : i \in followUps} = 0..(FullEscalation[key] - 1)

\* a batch built after the water time of the first day has passed while some of its
\* follow-up instants are still ahead: water has no follow-up that day, exercise has
\* its three, and water has its five the day after
C28_Witness ==
  /\ BatchBuilt
  /\ LET today == FormatDateKey(probe.referenceDate \div MinutesPerDay)
         tomorrow == FormatDateKey(probe.referenceDate \div MinutesPerDay + 1)
         waterTime == createDateTime(today, getReminderTimes(probe.planner).water)
     IN /\ DateLE(waterTime, probe.referenceDate)
        /\ ~DateLE(AddMinutes(waterTime, 60), probe.referenceDate)
        /\ ~ProbeCompleted(today, RequiredTaskId("water"))
        /\ FollowUpsOf(today, "water") = {}
        /\ Cardinality(FollowUpsOf(today, "exercise")) = 3
        /\ Cardinality(FollowUpsOf(tomorrow, "water")) = 5

\* C29: when the ids of the custom items are pairwise distinct, no two descriptors of
\* one batch have the same platform id
C29_BatchIdsUnique ==
  (BatchBuilt /\ \A i, j \in 1..Len(CustomItemsOf(probe.planner)) :
                   CustomItemsOf(probe.planner)[i].id = CustomItemsOf(probe.planner)[j].id => i = j) =>
    \A i, j \in 1..Len(probe.batch) : probe.batch[i].id = probe.batch[j].id => i = j

\* ------------------------------------------------------------------------
\* Properties of the completion toggle
\* ------------------------------------------------------------------------
\* change number k ticks an entry that was not completed and change k + 1 reopens it
TickedThenReopened(k) ==
  /\ k + 1 <= Len(probe.history)
  /\ probe.history[k].op = "updatePlannerCompletion" /\ probe.history[k].completed
  /\ probe.history[k + 1].op = "updatePlannerCompletion" /\ ~probe.history[k + 1].completed
  /\ probe.history[k + 1].dateKey = probe.history[k].dateKey
  /\ probe.history[k + 1].taskId = probe.history[k].taskId
  /\ ~IsCompleted(DayCompletions(CompletionsOf(probe.history[k].before), probe.history[k].dateKey),
                  probe.history[k].taskId)

\* C30: an entry ticked and then reopened, the reminders rescheduled after each step
\* with one reference instant: the device ends with the pending notifications it had
\* after scheduling the planner before the tick; and a call of
\* updatePlannerCompletion changes the flag of no other day or entry
C30_ReopenRestores ==
  /\ probe.view = "batch" =>
        \A k \in 1..Len(probe.history) :
          TickedThenReopened(k) => probe.devices[k + 2] = probe.devices[k]
  /\ \A k \in 1..Len(probe.history) :
        probe.history[k].op = "updatePlannerCompletion" =>
          LET change == probe.history[k]
              Other(flag) == flag[1] # change.dateKey \/ flag[2] # change.taskId
          IN /\ {flag \in FlagsOf(PlannersSoFar[k + 1]) : Other(flag)} = {flag \in FlagsOf(change.before) : Other(flag)}
             /\ <<change.dateKey, change.taskId, change.completed>> \in FlagsOf(PlannersSoFar[k + 1])

\* a tick that took reminders off the device and a reopening that put them back
C30_Witness ==
  /\ probe.view = "batch"
  /\ TickedThenReopened(1)
  /\ probe.devices[2] # probe.devices[1]
  /\ probe.devices[3] = probe.devices[1]
  /\ probe.devices[1] # {}
====
